---- MODULE Spec2Model ----
(***************************************************************************)
(* Model of the CDP session layer of causeway (src/src/cdp.rs): one        *)
(* CdpConnection with its writer task, its reader task, the table of       *)
(* pending response senders, the event broadcast channel, and caller tasks *)
(* running send / execute / execute_sequence on it.                        *)
(*                                                                         *)
(* The far end and the transport are the environment: it may put any frame *)
(* on the wire at any time, fail a write, fail a read, or close.  A closed *)
(* transport and a failed read look the same to the program (the reader    *)
(* loop ends), so both are the one action ReaderExit.                      *)
(***************************************************************************)
EXTENDS Integers, Sequences, FiniteSets, TLC

\* ---------------------------------------------------------------- bounds
NTasks == 2         \* caller tasks using the connection concurrently
MaxSeqLen == 2      \* longest command list handed to execute_sequence
MaxSends == 2       \* commands in all the lists together
MaxEvents == 1      \* events kept in the model's broadcast buffer
MaxCallers == 1     \* callers of plain send while every kind of frame arrives
MaxEventFrames == 2 \* event frames whose arrival order is recorded
NTools == 3         \* tool calls the server runs concurrently
MaxTextLen == 4     \* characters of the text given to type_text
MaxTargets == 2     \* targets in one listing of the /json endpoint
MaxTimeoutMs == 650 \* largest timeout_ms given to wait_for

\* ------------------------------------------------------- program constants
EventCapacity == 256    \* broadcast::channel::<CdpEvent>(256)
StartupCommands == 3    \* main: enable_page, enable_dom, enable_runtime
FirstId == 1            \* next_id: AtomicU64::new(1)

Tasks == 1..NTasks
\* main and the tasks that run the server's methods
Tools == 1..NTools
Procs == 0..NTools
Main == CHOOSE p \in Procs : p \notin Tools
MaxId == MaxSends
\* ids a frame may carry: every id send can allocate, and 0, never allocated
FrameIds == 0..MaxId

\* ------------------------------------------------------------------ values
\* serde_json::Value, opaque to the session layer.  `for` is the id the far
\* end had in mind when it built the payload; the session never reads it.
Vals == {"v"}
Value == [for : FrameIds, v : Vals \cup {"null"}]
Null == [for |-> 0, v |-> "null"]

\* CdpErrorData { code, message }
ErrCodes == {-32000}
CdpErrorData == [code : ErrCodes, message : FrameIds]
NoErrData == [code |-> 0, message |-> 0]

\* Option<T>
Some(x) == [some |-> TRUE, v |-> x]
None(d) == [some |-> FALSE, v |-> d]

\* Result<Value, CdpErrorData>: what travels through a oneshot channel
SlotOk(val) == [tag |-> "Ok", val |-> val, err |-> NoErrData]
SlotErr(e) == [tag |-> "Err", val |-> Null, err |-> e]

\* Result<Value, CdpError>: what send returns
Ok(val) == [tag |-> "Ok", val |-> val, code |-> 0, message |-> 0]
SendFailed == [tag |-> "SendFailed", val |-> Null, code |-> 0, message |-> 0]
ResponseDropped == [tag |-> "ResponseDropped", val |-> Null, code |-> 0, message |-> 0]
ResponseError(e) ==
    [tag |-> "ResponseError", val |-> Null, code |-> e.code, message |-> e.message]
NoResult == [tag |-> "none", val |-> Null, code |-> 0, message |-> 0]
\* CdpError::ConnectionFailed(msg)
ConnectionFailed ==
    [tag |-> "ConnectionFailed", val |-> Null, code |-> 0, message |-> 0]
\* McpError::internal_error(msg, None), what a tool method returns for a failure
InternalError == [tag |-> "McpError", val |-> Null, code |-> 0, message |-> 0]

IsErr(r) == r.tag \in {"SendFailed", "ResponseDropped", "ResponseError"}

\* CdpCommand { id, method, params }: the method names the caller's list item
CdpCommand(i, t, k) == [id |-> i, method |-> <<t, k>>]

\* ------------------------------------------------------------------ frames
\* One inbound WebSocket message.  text: Message::Text or another kind;
\* json: whether serde_json::from_str::<CdpMessage> accepts the body.
Frame(text, json, id, method, result, error, params) ==
    [text |-> text, json |-> json, id |-> id, method |-> method,
     result |-> result, error |-> error, params |-> params]

NoParams == None(Null)

NonTextFrame ==
    Frame(FALSE, FALSE, None(0), None("-"), None(Null), None(NoErrData), NoParams)
MalformedFrame ==
    Frame(TRUE, FALSE, None(0), None("-"), None(Null), None(NoErrData), NoParams)

Results(i) == {None(Null)} \cup {Some([for |-> i, v |-> x]) : x \in Vals}
Errors(i) ==
    {None(NoErrData)} \cup {Some([code |-> c, message |-> i]) : c \in ErrCodes}

EventParams == {None(Null)}

\* frames that carry an id and no method: {id, result}, {id, error}, both
\* result and error, or neither
IdFrames(i) ==
    {Frame(TRUE, TRUE, Some(i), None("-"), r, e, NoParams) :
        r \in Results(i), e \in Errors(i)}
ResponseFrames == UNION {IdFrames(i) : i \in FrameIds}
\* the two shapes of the wire format: {id, result} and {id, error}
WireResponses == {f \in ResponseFrames : f.result.some # f.error.some}
\* an id next to a method
MixedFrames ==
    {Frame(TRUE, TRUE, Some(i), Some("ev"), Some([for |-> i, v |-> x]),
           None(NoErrData), NoParams) : i \in FrameIds, x \in Vals}
\* {method, params}
EventFrames ==
    {Frame(TRUE, TRUE, None(0), Some("ev"), None(Null), None(NoErrData), p) : p \in EventParams}
\* {method} and {method, params}: two events a subscriber can tell apart
WireEvents ==
    {Frame(TRUE, TRUE, None(0), Some("ev"), None(Null), None(NoErrData), p) :
        p \in {None(Null), Some([for |-> 0, v |-> "v"])}}
\* a JSON object with neither id nor method
EmptyFrame == Frame(TRUE, TRUE, None(0), None("-"), None(Null), None(NoErrData), NoParams)

Frames ==
    ResponseFrames \cup MixedFrames \cup EventFrames
        \cup {EmptyFrame, MalformedFrame, NonTextFrame}

\* CdpEvent { method, params }
CdpEvent(method, params) == [method |-> method, params |-> params]

\* CdpEvent { method, params: parsed.params.unwrap_or(Value::Null) }
EventOf(f) == CdpEvent(f.method.v, IF f.params.some THEN f.params.v ELSE Null)

\* ------------------------------------------------------------------- state
VARIABLES
    next_id,      \* CdpConnection.next_id
    pending,      \* CdpConnection.pending: id -> oneshot sender <<task, call>>
    cmd_queue,    \* the unbounded mpsc channel cmd_sender -> cmd_receiver
    writer,       \* writer task: "running" | "stopped" (cmd_receiver dropped)
    reader,       \* reader task: "running" | "stopped"
    subscribed,   \* whether a broadcast receiver exists
    ev_buf,       \* events the receiver has not taken yet
    ev_log,       \* history: the event frames, in the order they arrived
    ev_got,       \* history: the events the receiver has taken, in order
    pc,           \* per task: position in execute_sequence / send
    len,          \* per task: length of the command list
    pos,          \* per task: commands started so far (the current one is pos)
    cur_id,       \* per task: id of the send in progress
    rx,           \* per task: the oneshot receiver of the send in progress
    last_result,  \* per task: execute_sequence's last_result
    outcome,      \* per task: what execute_sequence returned
    wire_out,     \* history: commands written to the WebSocket, in order
    enq_log,      \* history: commands accepted by cmd_sender.send, in order
    call_log,     \* history: per task, <<id, result>> of every send that returned
    last,         \* history: what the reader did with the latest frame
    issued,       \* history: per task, the session's state when the send in
                  \* progress was issued: "open" | "erred" (open, after some
                  \* send returned a protocol error) | "dead"
    live,         \* the LiveConnection of the server: the handle get() returns
    conns,        \* every CdpConnection made so far, with its two tasks
    tool_kind,    \* per process: "main", or the server method the task runs
    tool_pc,      \* per process: position in main or in that method
    tool_conn,    \* per process: the handle its send in progress works on
    tool_id,      \* per process: the id of its send in progress
    tool_rx,      \* per process: the oneshot receiver of its send in progress
    tool_new,     \* per process: the connection it made and has not installed
    tool_seen,    \* history, per process: the swaps completed when it got its
                  \* handle and when it started its send
    tool_out,     \* per process: what main or the method returned
    tool_log,     \* history: per process, <<handle, id, result>> of the sends
                  \* that returned
    installed,    \* history: the handles swapped in, in order, and by whom
    resp_log,     \* history: the response frames that found their slot
    text,         \* type_text: the text, or NoCall
    keys,         \* type_text: the commands built
    targets,      \* find_target_ws_url: what the /json request brought
    target_id,    \* find_target_ws_url: the wanted id, or None
    ws_url,       \* find_target_ws_url: what it returned
    timeout_ms,   \* wait_for: the timeout_ms parameter, or None
    polled,       \* wait_for: what each poll so far brought
    wait_out,     \* wait_for: what it returned
    dedicated,    \* launch: config.dedicated_profile
    browser,      \* the browser that runs when the program starts
    launch_pc,    \* position in main's launch .. shutdown
    polls,        \* poll_until_ready: iterations started
    reply,        \* history: what the latest /json request of launch brought
    seen_ready,   \* history: poll_until_ready got a listing with a ready page
    child,        \* the process launch spawned, if any
    launch_out,   \* what launch returned
    killed        \* history: the processes killed, in order

conn == <<next_id, pending, cmd_queue>>
pump == <<writer, reader>>
events == <<subscribed, ev_buf, ev_log, ev_got>>
task == <<pc, len, pos, cur_id, rx, last_result, outcome>>
hist == <<wire_out, enq_log, call_log, last, issued>>
server == <<live, conns>>
tool == <<tool_kind, tool_pc, tool_conn, tool_id, tool_rx, tool_new, tool_out>>
toolhist == <<tool_seen, tool_log, installed>>
tools == <<server, tool, toolhist>>
typing == <<text, keys>>
finding == <<targets, target_id, ws_url>>
waiting == <<timeout_ms, polled, wait_out>>
launching == <<dedicated, browser, launch_pc, polls, reply, seen_ready,
               child, launch_out, killed>>
util == <<resp_log, typing, finding, waiting, launching>>
vars == <<conn, pump, events, task, hist, tools, util>>

\* oneshot receiver states
RxEmpty == [state |-> "empty", r |-> SlotOk(Null)]
RxFull(r) == [state |-> "full", r |-> r]
RxClosed == [state |-> "closed", r |-> SlotOk(Null)]

NoFrame ==
    [kind |-> "none", id |-> 0, hit |-> FALSE, n |-> 0, prev |-> "none",
     chan |-> "none"]

RECURSIVE TotalLen(_, _)
TotalLen(l, n) == IF n = 0 THEN 0 ELSE l[n] + TotalLen(l, n - 1)

\* the command lists the tasks are given: interchangeable tasks, so the
\* lists are ordered by length
Inputs ==
    {l \in [Tasks -> 0..MaxSeqLen] :
        /\ TotalLen(l, NTasks) <= MaxSends
        /\ \A t \in Tasks : t + 1 \in Tasks => l[t] >= l[t + 1]}

\* the methods of the server a task may run: one that sends through
\* exec_with_reconnect, one that sends on get() (read_text and the like), and
\* switch_tab
ToolKinds == {"exec", "plain", "switch"}
\* the methods that send on get() without a wrapper: one command (read_text,
\* evaluate_js, scroll, close_tab) or a sequence of them (click, press_key,
\* type_text), next to switch_tab
DirectKinds == {"plain", "seq", "switch"}
KindRank(k) ==
    CASE k = "exec" -> 1 [] k = "plain" -> 2 [] k = "seq" -> 3 [] OTHER -> 4
NoTools == {"none"}

\* oneshot receiver of a send on one of the server's connections; via is
\* history: the connection whose reader filled it
ToolRxEmpty == [state |-> "empty", r |-> SlotOk(Null), via |-> 0]
ToolRxFull(r, h) == [state |-> "full", r |-> r, via |-> h]

\* the server before main has connected; interchangeable tasks, so the
\* methods are given out in one order
ToolsInit(kinds) ==
    /\ live = 0
    /\ conns = <<>>
    /\ tool_kind \in {k \in [Procs -> kinds \cup {"main"}] :
                       /\ k[Main] = "main"
                       /\ \A t \in Tools : k[t] \in kinds
                       /\ \A t \in Tools :
                            t + 1 \in Tools => KindRank(k[t]) <= KindRank(k[t + 1])}
    /\ tool_pc = [p \in Procs |-> IF p = Main THEN "connect" ELSE "get"]
    /\ tool_conn = [p \in Procs |-> 0]
    /\ tool_id = [p \in Procs |-> 0]
    /\ tool_rx = [p \in Procs |-> ToolRxEmpty]
    /\ tool_new = [p \in Procs |-> 0]
    /\ tool_seen = [p \in Procs |-> [got |-> 0, at |-> 0]]
    /\ tool_out = [p \in Procs |-> NoResult]
    /\ tool_log = [p \in Procs |-> <<>>]
    /\ installed = <<>>

\* one connection, as connect returns it
ConnInit(lens) ==
    /\ next_id = FirstId
    /\ pending = <<>>
    /\ cmd_queue = <<>>
    /\ writer = "running"
    /\ reader = "running"
    /\ subscribed = FALSE
    /\ ev_buf = <<>>
    /\ ev_log = <<>>
    /\ ev_got = <<>>
    /\ pc = [t \in Tasks |-> "loop"]
    /\ len \in lens
    /\ pos = [t \in Tasks |-> 0]
    /\ cur_id = [t \in Tasks |-> 0]
    /\ rx = [t \in Tasks |-> RxEmpty]
    /\ last_result = [t \in Tasks |-> Null]
    /\ outcome = [t \in Tasks |-> NoResult]
    /\ wire_out = <<>>
    /\ enq_log = <<>>
    /\ call_log = [t \in Tasks |-> <<>>]
    /\ last = NoFrame
    /\ issued = [t \in Tasks |-> "open"]

\* what an HTTP request to /json brought: kind is "failed" (no answer in
\* time), "unparsable" (an answer that is no JSON array) or "list"
NoReply == [kind |-> "none", list |-> <<>>]
\* a result that is not there yet
Pending(d) == [done |-> FALSE, v |-> d]
Returned(x) == [done |-> TRUE, v |-> x]

TypeInit(texts) == text \in texts /\ keys = Pending(<<>>)
FindInit(replies, ids) ==
    targets \in replies /\ target_id \in ids /\ 
        ws_url = Pending([tag |-> "none", url |-> ""])
WaitInit(timeouts) ==
    timeout_ms \in timeouts /\ polled = <<>> /\ wait_out = "-"
LaunchInit(pcs, profiles, browsers) ==
    /\ launch_pc \in pcs
    /\ dedicated \in profiles
    /\ browser \in browsers
    /\ polls = 0
    /\ reply = NoReply
    /\ seen_ready = FALSE
    /\ child = FALSE
    /\ launch_out = [tag |-> "none", url |-> ""]
    /\ killed = <<>>
\* no call of type_text, find_target_ws_url or wait_for, and no launch
TypeIdle == TypeInit({<<>>})
FindIdle == FindInit({NoReply}, {None("")})
WaitIdle == WaitInit({None(0)})
LaunchIdle == LaunchInit({"-"}, {FALSE}, {"-"})
UtilInit == resp_log = <<>> /\ TypeIdle /\ FindIdle /\ WaitIdle /\ LaunchIdle

\* one connection and its callers, without the server around it
InitWith(lens) == ConnInit(lens) /\ ToolsInit(NoTools) /\ UtilInit

\* the whole program from the start of main; the callers of the connection
\* followed on its own have nothing to send
InitLive == ConnInit({[t \in Tasks |-> 0]}) /\ ToolsInit(ToolKinds) /\ UtilInit

Init == InitWith(Inputs)

\* plain send / execute calls only, by any of the tasks
InitCancel == InitWith({l \in Inputs : \A t \in Tasks : l[t] <= 1})

\* plain send / execute calls only, by at most MaxCallers tasks
InitFrames ==
    InitWith({l \in Inputs : /\ \A t \in Tasks : l[t] <= 1
                             /\ TotalLen(l, NTasks) <= MaxCallers})

\* ----------------------------------------------------------- map helpers
\* a remove that hands the value out and leaves the entry in the map
MapRemove_keep(m, k) == m

MapInsert(m, k, v) == [x \in DOMAIN m \cup {k} |-> IF x = k THEN v ELSE m[x]]
MapRemove(m, k) == [x \in DOMAIN m \ {k} |-> m[x]]

\* ------------------------------------------------------ execute_sequence
\* Every task runs execute_sequence on a list of len[t] commands, entered at
\* let mut last_result = Value::Null.  send and execute are the case
\* len[t] = 1: execute_sequence of one command returns what its send returns.

\* the for loop is exhausted: Ok(last_result)
ExecuteSequenceReturn(t) ==
    /\ pc[t] = "loop"
    /\ pos[t] = len[t]
    /\ pc' = [pc EXCEPT ![t] = "done"]
    /\ outcome' = [outcome EXCEPT ![t] = Ok(last_result[t])]
    /\ UNCHANGED <<conn, pump, events, len, pos, cur_id, rx, last_result, hist, tools, util>>

\* ------------------------------------------------------------------- send
\* a counter that hands the same value out again
FetchAdd_lost(n) == n

\* fetch_add(1, Relaxed): the counter's value after the atomic increment
FetchAdd(n) == n + 1

\* history: what the session has been through when a send is issued
SessionState ==
    IF reader = "stopped" \/ writer = "stopped" THEN "dead"
    ELSE IF \E u \in Tasks : \E k \in DOMAIN call_log[u] :
                call_log[u][k][2].tag = "ResponseError" THEN "erred"
    ELSE "open"

\* let id = conn.next_id.fetch_add(1); let (response_tx, response_rx) = channel()
SendAlloc(t) ==
    /\ pc[t] = "loop"
    /\ pos[t] < len[t]
    /\ cur_id' = [cur_id EXCEPT ![t] = next_id]
    /\ next_id' = FetchAdd(next_id)
    /\ pos' = [pos EXCEPT ![t] = pos[t] + 1]
    /\ rx' = [rx EXCEPT ![t] = RxEmpty]
    /\ pc' = [pc EXCEPT ![t] = "register"]
    /\ issued' = [issued EXCEPT ![t] = SessionState]
    /\ UNCHANGED <<pending, cmd_queue, pump, events, len, last_result, outcome,
                   wire_out, enq_log, call_log, last, tools, util>>

\* a send that goes on to enqueue without having registered its slot
SendRegister_skipped(t) ==
    /\ pc[t] = "register"
    /\ pc' = [pc EXCEPT ![t] = "enqueue"]
    /\ UNCHANGED <<conn, pump, events, len, pos, cur_id, rx, last_result, outcome,
                   hist, tools, util>>

\* conn.pending.lock().await.insert(id, response_tx)
SendRegister(t) ==
    /\ pc[t] = "register"
    /\ pending' = MapInsert(pending, cur_id[t], <<t, pos[t]>>)
    /\ pc' = [pc EXCEPT ![t] = "enqueue"]
    /\ UNCHANGED <<next_id, cmd_queue, pump, events, len, pos, cur_id, rx,
                   last_result, outcome, hist, tools, util>>

\* an execute_sequence that goes on after a failed command
SendReturns_continue(t, r) ==
    /\ call_log' = [call_log EXCEPT ![t] = Append(@, <<cur_id[t], r>>)]
    /\ rx' = [rx EXCEPT ![t] = RxEmpty]
    /\ last_result' = [last_result EXCEPT ![t] = r.val]
    /\ pc' = [pc EXCEPT ![t] = "loop"]
    /\ UNCHANGED outcome

\* send returns r, and response_rx is gone with it: last_result = send(..)?
\* keeps the value of an Ok and goes round the loop, and returns an error
SendReturns(t, r) ==
    /\ call_log' = [call_log EXCEPT ![t] = Append(@, <<cur_id[t], r>>)]
    /\ rx' = [rx EXCEPT ![t] = RxEmpty]
    /\ IF r.tag = "Ok"
       THEN /\ last_result' = [last_result EXCEPT ![t] = r.val]
            /\ pc' = [pc EXCEPT ![t] = "loop"]
            /\ UNCHANGED outcome
       ELSE /\ outcome' = [outcome EXCEPT ![t] = r]
            /\ pc' = [pc EXCEPT ![t] = "done"]
            /\ UNCHANGED last_result

\* conn.cmd_sender.send(cmd).map_err(|_| SendFailed)?
SendEnqueue(t) ==
    /\ pc[t] = "enqueue"
    /\ IF writer = "running"
       THEN /\ cmd_queue' = Append(cmd_queue, CdpCommand(cur_id[t], t, pos[t]))
            /\ enq_log' = Append(enq_log, CdpCommand(cur_id[t], t, pos[t]))
            /\ pc' = [pc EXCEPT ![t] = "await"]
            /\ UNCHANGED <<last_result, outcome, call_log>>
       ELSE /\ SendReturns(t, SendFailed)
            /\ UNCHANGED <<cmd_queue, enq_log>>
    /\ IF writer = "running" THEN UNCHANGED rx ELSE TRUE
    /\ UNCHANGED <<next_id, pending, pump, events, len, pos, cur_id,
                   wire_out, last, issued, tools, util>>

\* a send that turns the far end's error into an empty success
SendResult_swallow(r) ==
    IF r.state = "closed" THEN ResponseDropped
    ELSE IF r.r.tag = "Err" THEN Ok(Null)
    ELSE Ok(r.r.val)

\* response_rx.await.map_err(|_| ResponseDropped)?; result.map_err(ResponseError)
SendResult(r) ==
    IF r.state = "closed" THEN ResponseDropped
    ELSE IF r.r.tag = "Err" THEN ResponseError(r.r.err)
    ELSE Ok(r.r.val)

\* a send that does not wait for its response
SendAwait_nowait(t) ==
    /\ pc[t] = "await"
    /\ SendReturns(t, IF rx[t].state = "empty" THEN Ok(Null) ELSE SendResult(rx[t]))
    /\ UNCHANGED <<conn, pump, events, len, pos, cur_id, wire_out, enq_log, last,
                   issued, tools, util>>

\* the caller resumes when its receiver holds a value or its sender is gone
SendAwait(t) ==
    /\ pc[t] = "await"
    /\ rx[t].state # "empty"
    /\ SendReturns(t, SendResult(rx[t]))
    /\ UNCHANGED <<conn, pump, events, len, pos, cur_id, wire_out, enq_log, last,
                   issued, tools, util>>

\* The caller drops the future of send (its own timeout, a cancelled request)
\* at one of its two suspension points: pending.lock().await, before the slot
\* is inserted, or response_rx.await.  No code of send runs any more; the
\* oneshot receiver is dropped with the future, and whatever send had put in
\* the table or in the queue stays there.
SendAbandon(t) ==
    /\ pc[t] \in {"register", "await"}
    /\ pc' = [pc EXCEPT ![t] = "abandoned"]
    /\ UNCHANGED <<conn, pump, events, len, pos, cur_id, rx, last_result, outcome,
                   hist, tools, util>>

\* ------------------------------------------------------------ writer task
\* a writer that takes the newest queued command first
WriterWrite_lifo ==
    /\ writer = "running"
    /\ cmd_queue # <<>>
    /\ wire_out' = Append(wire_out, cmd_queue[Len(cmd_queue)])
    /\ cmd_queue' = SubSeq(cmd_queue, 1, Len(cmd_queue) - 1)
    /\ UNCHANGED <<next_id, pending, pump, events, task, enq_log, call_log, last,
                   issued, tools, util>>

\* while let Some(cmd) = cmd_receiver.recv().await { ws_write.send(..) }
\* The write succeeds: the command is on the wire.
WriterWrite ==
    /\ writer = "running"
    /\ cmd_queue # <<>>
    /\ wire_out' = Append(wire_out, Head(cmd_queue))
    /\ cmd_queue' = Tail(cmd_queue)
    /\ UNCHANGED <<next_id, pending, pump, events, task, enq_log, call_log, last,
                   issued, tools, util>>

\* ws_write.send(..).is_err(): break.  The task ends and drops cmd_receiver
\* with whatever is still queued.
WriterFail ==
    /\ writer = "running"
    /\ cmd_queue # <<>>
    /\ writer' = "stopped"
    /\ cmd_queue' = <<>>
    /\ UNCHANGED <<next_id, pending, reader, events, task, hist, tools, util>>

\* ------------------------------------------------------------ reader task
\* oneshot::Sender::send: the value reaches the receiver when the receiver is
\* still alive, that is while its send call has not returned; otherwise the
\* value is handed back and the reader discards it (let _ =).
ReceiverAlive(s) == pc[s[1]] \in {"enqueue", "await"} /\ pos[s[1]] = s[2]

Deliver(s, r) ==
    IF ReceiverAlive(s) THEN [rx EXCEPT ![s[1]] = RxFull(r)] ELSE rx

\* a reader that does not look at the error member
SlotValue_noerr(f) == SlotOk(IF f.result.some THEN f.result.v ELSE Null)

\* if let Some(err) = parsed.error { Err(err) } else { Ok(result.unwrap_or(Null)) }
SlotValue(f) ==
    IF f.error.some THEN SlotErr(f.error.v)
    ELSE SlotOk(IF f.result.some THEN f.result.v ELSE Null)

\* a channel that hands the newest event out first
Broadcast_front(ev) == IF ~subscribed THEN ev_buf ELSE <<ev>> \o ev_buf

\* broadcast::Sender::send: an error when there is no receiver; otherwise the
\* event is stored, the oldest unread one giving way when the buffer is full.
Broadcast(ev) ==
    IF ~subscribed THEN ev_buf
    ELSE IF Len(ev_buf) < EventCapacity THEN Append(ev_buf, ev)
    ELSE Append(Tail(ev_buf), ev)

\* a reader that takes responses to complete in request order
SlotKey_oldest(f) ==
    IF DOMAIN pending = {} THEN f.id.v
    ELSE CHOOSE i \in DOMAIN pending : \A j \in DOMAIN pending : i <= j

\* map.remove(&id): the key the reader looks up for a frame that carries an id
SlotKey(f) == f.id.v

\* a reader without the event branch
FrameKind_noevent(f) ==
    IF ~f.text THEN "nontext"
    ELSE IF ~f.json THEN "malformed"
    ELSE IF f.id.some THEN "response"
    ELSE "ignored"

\* what the loop body does with one message, as a label
FrameKind(f) ==
    IF ~f.text THEN "nontext"
    ELSE IF ~f.json THEN "malformed"
    ELSE IF f.id.some THEN "response"
    ELSE IF f.method.some THEN "event"
    ELSE "ignored"

\* a reader that gives up on a body it cannot parse
LoopControl_break(f) == IF FrameKind(f) = "malformed" THEN "break" ELSE "continue"

\* a reader that ends on a response nobody is waiting for
LoopControl_unknown(f) ==
    IF FrameKind(f) = "response" /\ f.id.v \notin DOMAIN pending THEN "break"
    ELSE "continue"

\* a reader that ends when the receiver of a slot is gone (send(..).unwrap())
LoopControl_gone(f) ==
    IF /\ FrameKind(f) = "response"
       /\ f.id.v \in DOMAIN pending
       /\ ~ReceiverAlive(pending[f.id.v])
    THEN "break" ELSE "continue"

\* a reader that ends when an event finds no subscriber (send(..)?)
LoopControl_nosub(f) ==
    IF FrameKind(f) = "event" /\ ~subscribed THEN "break" ELSE "continue"

\* how the loop body ends: `continue` for a message that is not text or does
\* not parse, the end of the body for the others; never a break
LoopControl(f) == "continue"

\* one iteration of while let Some(Ok(msg)) = ws_read.next().await
ReaderFrame(f) ==
    /\ reader = "running"
    /\ CASE FrameKind(f) = "response" ->
              /\ UNCHANGED ev_buf
              /\ IF SlotKey(f) \in DOMAIN pending
                 THEN /\ pending' = MapRemove(pending, SlotKey(f))
                      /\ rx' = Deliver(pending[SlotKey(f)], SlotValue(f))
                 ELSE UNCHANGED <<pending, rx>>
         [] FrameKind(f) = "event" ->
              /\ ev_buf' = Broadcast(EventOf(f))
              /\ UNCHANGED <<pending, rx>>
         [] OTHER -> UNCHANGED <<pending, rx, ev_buf>>
    /\ reader' = IF LoopControl(f) = "break" THEN "stopped" ELSE "running"
    /\ UNCHANGED <<next_id, cmd_queue, writer, subscribed, pc, len, pos, cur_id,
                   last_result, outcome, wire_out, enq_log, call_log, issued,
                   tools, typing, finding, waiting, launching>>

\* what the broadcast channel does with an event sent now: nothing without a
\* receiver, room for it below its capacity, the oldest one displaced at it
ChannelState ==
    IF ~subscribed THEN "nosub"
    ELSE IF Len(ev_buf) < EventCapacity THEN "stored"
    ELSE "displaced"

\* history: the kind of the frame; for a response, its id, whether a slot was
\* waiting for it and, when one was, the kind of the frame before it and what
\* the channel did with that one; for any other frame, the number of slots
\* pending when it arrived; for an event, what the channel did with it
Observation(f) ==
    LET k == FrameKind(f)
        hit == k = "response" /\ SlotKey(f) \in DOMAIN pending
    IN  [kind |-> k,
         id |-> IF k = "response" THEN f.id.v ELSE 0,
         hit |-> hit,
         n |-> IF k = "response" THEN 0 ELSE Cardinality(DOMAIN pending),
         prev |-> IF hit THEN last.kind ELSE "none",
         chan |-> IF k = "event" THEN ChannelState
                  ELSE IF hit THEN last.chan ELSE "none"]

\* the far end sends a response
ResponseArrives(f) ==
    ReaderFrame(f) /\ UNCHANGED <<last, ev_log, ev_got, resp_log>>

\* the far end sends a response to a send in progress, and the history keeps
\* the frame
ResponseLogged(f) ==
    /\ FrameKind(f) = "response" /\ SlotKey(f) \in DOMAIN pending
    /\ ReaderFrame(f)
    /\ resp_log' = Append(resp_log, f)
    /\ UNCHANGED <<last, ev_log, ev_got>>

\* the far end sends any frame, and the history records what became of it
FrameRead(f) ==
    /\ ReaderFrame(f)
    /\ last' = Observation(f)
    /\ UNCHANGED <<ev_log, ev_got, resp_log>>

\* the far end sends an event, and the history records its place in the
\* arrival order
EventArrives(f) ==
    /\ Len(ev_log) < MaxEventFrames
    /\ ReaderFrame(f)
    /\ ev_log' = Append(ev_log, f)
    /\ UNCHANGED <<last, ev_got, resp_log>>

\* the same, with a subscriber that lets at most MaxEvents events wait
EventRoom(f) == FrameKind(f) = "event" /\ subscribed => Len(ev_buf) < MaxEvents
FrameArrives(f) == EventRoom(f) /\ FrameRead(f)

\* ws_read.next() yields None or Some(Err(_)): the loop ends, then
\* drop(writer_handle).  Dropping a JoinHandle detaches the writer task, it
\* does not stop it; the pending map stays alive through conn.pending.
ReaderExit ==
    /\ reader = "running"
    /\ reader' = "stopped"
    /\ UNCHANGED <<conn, writer, events, task, hist, tools, util>>

\* ----------------------------------------------------------------- events
\* subscribe_events: conn.event_sender.subscribe()
SubscribeEvents ==
    /\ ~subscribed
    /\ subscribed' = TRUE
    /\ ev_buf' = <<>>
    /\ UNCHANGED <<conn, pump, ev_log, ev_got, task, hist, tools, util>>

\* Receiver::recv: the subscriber takes the oldest event it has not seen
Recv ==
    /\ subscribed
    /\ ev_buf # <<>>
    /\ ev_buf' = Tail(ev_buf)
    /\ UNCHANGED <<conn, pump, subscribed, task, hist, tools, util>>

\* the subscriber takes an event
EventRecv == Recv /\ UNCHANGED <<ev_log, ev_got>>

\* the subscriber takes an event, and the history records it
EventTaken == Recv /\ ev_got' = Append(ev_got, Head(ev_buf)) /\ UNCHANGED ev_log

\* ------------------------------------------------------------- the server
\* main connects, enables three domains and hands the connection to the
\* server; the server's methods reach the connection through the holder
\* live (LiveConnection): get() for a handle, swap(new) after a reconnect.

\* connect: a CdpConnection with next_id = 1, an empty pending map, an empty
\* command channel, and its writer and reader tasks running.  wire holds the
\* ids written to the WebSocket and not answered yet.  writer: "running",
\* "failed" (a write failed) or "ended" (the command channel was closed).
NewConnection ==
    [next_id |-> FirstId, pending |-> <<>>, queue |-> <<>>, wire |-> {},
     writer |-> "running", reader |-> "running"]

\* a connect that sets the connection up before it knows the handshake's
\* outcome
Connect_spawned(cs, ok) == Append(cs, NewConnection)

\* connect(ws_url): connect_async(..).map_err(ConnectionFailed)? comes first;
\* the map, the channels and the two tasks exist only after it succeeded
Connect(cs, ok) == IF ok THEN Append(cs, NewConnection) ELSE cs

\* connect_to_target(ws_url): connect, to the WebSocket of one page target
ConnectToTarget(cs, ok) == Connect(cs, ok)

\* a holder whose get lends the handle out and stays locked against swap
\* until the borrower's send has returned
HolderBusy_guard == {p \in Tools : tool_pc[p] \in {"send", "await"}}

\* the processes whose use of a handle keeps swap waiting: none, the holder
\* is locked around the swap itself only
HolderBusy == {}

\* a get that keeps returning the first handle installed
HolderGet_first == IF installed = <<>> THEN live ELSE installed[1].h

\* LiveConnection::get: the handle installed last
HolderGet == live

\* a wrapper that retries on the handle it already has
HandleFor_stale(p) == IF tool_log[p] = <<>> THEN HolderGet ELSE tool_conn[p]

\* &*self.live.get().await: every send of a method, the retry of
\* exec_with_reconnect too, asks the holder for the handle
HandleFor(p) == HolderGet

\* what the swap records: the sends suspended on the handle it replaces, as
\* <<process, number of its send>>, and the other processes that are
\* reconnecting
SwapRecord(p, h) ==
    [h |-> h, by |-> p,
     inflight |-> {<<q, Len(tool_log[q]) + 1>> : q \in
                     {q \in Tools : /\ tool_pc[q] = "await"
                                    /\ tool_rx[q].state = "empty"
                                    /\ tool_conn[q] = live}},
     others |-> {q \in Tools \ {p} :
                   tool_pc[q] \in {"discover", "handshake", "swap"}}]

\* a match that reconnects on every error
Retryable_all(r) == r.tag # "Ok"

\* Err(SendFailed) | Err(ResponseDropped) => reconnect and retry
Retryable(r) == r.tag \in {"SendFailed", "ResponseDropped"}

Goes(to, out) == [pc |-> to, out |-> out]

\* a main that goes on whatever an enable command returned
MainAfterSend_eager(n, r) ==
    IF n < StartupCommands THEN Goes("send", NoResult)
    ELSE Goes("serve", NoResult)

\* main: cdp::execute(&conn, ..).await? three times, then the server
MainAfterSend(n, r) ==
    IF r.tag # "Ok" THEN Goes("done", r)
    ELSE IF n < StartupCommands THEN Goes("send", NoResult)
    ELSE Goes("serve", NoResult)

\* a method that reconnects when its send failed in transport
PlainAfterSend_retry(r) ==
    IF Retryable(r) THEN Goes("discover", NoResult)
    ELSE Goes("done", IF r.tag = "Ok" THEN r ELSE InternalError)

\* cdp::execute(&*self.live.get().await, ..).await.map_err(internal_error)?
PlainAfterSend(r) == Goes("done", IF r.tag = "Ok" THEN r ELSE InternalError)

\* exec_with_reconnect: the match on the first send, and the second send,
\* whose result is the method's
ExecAfterSend(n, r) ==
    IF n = 1 /\ Retryable(r) THEN Goes("discover", NoResult) ELSE Goes("done", r)

\* a switch_tab that reconnects whatever Target.activateTarget returned
SwitchAfterSend_always(r) == Goes("discover", NoResult)

\* switch_tab: Target.activateTarget, map_err(internal_error)?, then
\* reconnect_to_target
SwitchAfterSend(r) ==
    IF r.tag = "Ok" THEN Goes("discover", NoResult) ELSE Goes("done", InternalError)

\* a sequence that asks the holder again before each command
SeqAfterSend_reget(n, r) ==
    IF r.tag # "Ok" THEN Goes("done", InternalError)
    ELSE IF n < MaxSeqLen THEN Goes("get", NoResult)
    ELSE Goes("done", r)

\* cdp::execute_sequence(&*self.live.get().await, commands).await
\* .map_err(internal_error)?: for (method, params) in commands { send(conn,
\* ..).await? } on the one conn it was given
SeqAfterSend(n, r) ==
    IF r.tag # "Ok" THEN Goes("done", InternalError)
    ELSE IF n < MaxSeqLen THEN Goes("send", NoResult)
    ELSE Goes("done", r)

AfterSend(k, n, r) ==
    CASE k = "main" -> MainAfterSend(n, r)
      [] k = "exec" -> ExecAfterSend(n, r)
      [] k = "switch" -> SwitchAfterSend(r)
      [] k = "seq" -> SeqAfterSend(n, r)
      [] OTHER -> PlainAfterSend(r)

\* a reconnect whose failure lets the wrapper go on to its second send
ReconnectFailed_retry(k) ==
    IF k = "exec" THEN Goes("get", NoResult) ELSE Goes("done", InternalError)

\* find_target_ws_url(..)? and connect_to_target(..)? in try_reconnect, whose
\* Err exec_with_reconnect returns as ConnectionFailed, and in
\* reconnect_to_target, whose Err is an internal_error
ReconnectFailed(k) ==
    Goes("done", IF k = "exec" THEN ConnectionFailed ELSE InternalError)

\* a wrapper that returns after the swap
AfterSwap_noretry(k) == Goes("done", Ok(Null))

\* after self.live.swap(new_conn): exec_with_reconnect sends once more,
\* switch_tab returns its success
AfterSwap(k) == IF k = "exec" THEN Goes("get", NoResult) ELSE Goes("done", Ok(Null))

\* the command a process sends: main's three, and one per method, the same
\* at the first and at the second send of exec_with_reconnect
CommandOf(p) ==
    IF p = Main \/ tool_kind[p] = "seq"
    THEN CdpCommand(0, p, Len(tool_log[p]) + 1)
    ELSE CdpCommand(0, p, 1)

\* send returned r for the call e describes
SendReturned(p, e) ==
    LET n == AfterSend(tool_kind[p], Len(tool_log[p]) + 1, e.r)
    IN  /\ tool_log' = [tool_log EXCEPT ![p] = Append(@, e)]
        /\ tool_rx' = [tool_rx EXCEPT ![p] = ToolRxEmpty]
        /\ tool_pc' = [tool_pc EXCEPT ![p] = n.pc]
        /\ tool_out' = [tool_out EXCEPT ![p] = n.out]

Call(p, h, id, at, r, via) ==
    [h |-> h, id |-> id, method |-> CommandOf(p).method,
     got |-> tool_seen[p].got, at |-> at, r |-> r, via |-> via]

\* let conn = cdp::connect(&ws_url).await?
MainConnect(ok) ==
    /\ tool_pc[Main] = "connect"
    /\ conns' = Connect(conns, ok)
    /\ IF ok
       THEN /\ tool_conn' = [tool_conn EXCEPT ![Main] = Len(conns')]
            /\ tool_pc' = [tool_pc EXCEPT ![Main] = "send"]
            /\ UNCHANGED tool_out
       ELSE /\ tool_out' = [tool_out EXCEPT ![Main] = ConnectionFailed]
            /\ tool_pc' = [tool_pc EXCEPT ![Main] = "done"]
            /\ UNCHANGED tool_conn
    /\ UNCHANGED <<util, conn, pump, events, task, hist, live, tool_kind, tool_id,
                   tool_rx, tool_new, toolhist>>

\* CausewayServer::new(conn, port), serve: the holder starts with main's
\* connection
MainServe ==
    /\ tool_pc[Main] = "serve"
    /\ live' = tool_conn[Main]
    /\ installed' = Append(installed, SwapRecord(Main, tool_conn[Main]))
    /\ tool_pc' = [tool_pc EXCEPT ![Main] = "serving"]
    /\ UNCHANGED <<util, conn, pump, events, task, hist, conns, tool_kind, tool_conn,
                   tool_id, tool_rx, tool_new, tool_out, tool_seen, tool_log>>

\* self.live.get().await
ToolGet(p) ==
    /\ tool_pc[p] = "get"
    /\ live # 0
    /\ tool_conn' = [tool_conn EXCEPT ![p] = HandleFor(p)]
    /\ tool_seen' = [tool_seen EXCEPT ![p] = [got |-> Len(installed), at |-> 0]]
    /\ tool_pc' = [tool_pc EXCEPT ![p] = "send"]
    /\ UNCHANGED <<util, conn, pump, events, task, hist, server, tool_kind, tool_id,
                   tool_rx, tool_new, tool_out, tool_log, installed>>

\* cdp::send on the connection of the handle, up to response_rx.await: the id,
\* the slot, and the command handed to the writer, or SendFailed when the
\* writer has ended
ToolSend(p) ==
    LET h == tool_conn[p]
        c == conns[h]
        id == c.next_id
        reg == [c EXCEPT !.next_id = FetchAdd(id),
                         !.pending = MapInsert(@, id, p)]
        cmd == [CommandOf(p) EXCEPT !.id = id]
    IN  /\ tool_pc[p] = "send"
        /\ tool_id' = [tool_id EXCEPT ![p] = id]
        /\ tool_seen' = [tool_seen EXCEPT ![p].at = Len(installed)]
        /\ IF c.writer = "running"
           THEN /\ conns' = [conns EXCEPT ![h] = [reg EXCEPT !.queue = Append(@, cmd)]]
                /\ tool_pc' = [tool_pc EXCEPT ![p] = "await"]
                /\ tool_rx' = [tool_rx EXCEPT ![p] = ToolRxEmpty]
                /\ UNCHANGED <<tool_out, tool_log>>
           ELSE /\ conns' = [conns EXCEPT ![h] = reg]
                /\ SendReturned(p, Call(p, h, id, Len(installed), SendFailed, 0))
        /\ UNCHANGED <<util, conn, pump, events, task, hist, live, tool_kind, tool_conn,
                       tool_new, installed>>

\* response_rx.await resumes
ToolAwait(p) ==
    /\ tool_pc[p] = "await"
    /\ tool_rx[p].state # "empty"
    /\ SendReturned(p, Call(p, tool_conn[p], tool_id[p], tool_seen[p].at,
                            SendResult(tool_rx[p]), tool_rx[p].via))
    /\ UNCHANGED <<util, conn, pump, events, task, hist, server, tool_kind, tool_conn,
                   tool_id, tool_new, tool_seen, installed>>

\* browser::find_target_ws_url(self.port, ..): the browser's /json list
\* names the page target, or the request fails or names none
Discover(p, ok) ==
    /\ tool_pc[p] = "discover"
    /\ LET n == IF ok THEN Goes("handshake", NoResult)
                ELSE ReconnectFailed(tool_kind[p])
       IN  /\ tool_pc' = [tool_pc EXCEPT ![p] = n.pc]
           /\ tool_out' = [tool_out EXCEPT ![p] = n.out]
    /\ UNCHANGED <<util, conn, pump, events, task, hist, server, tool_kind, tool_conn,
                   tool_id, tool_rx, tool_new, toolhist>>

\* cdp::connect_to_target(&ws_url)
Handshake(p, ok) ==
    /\ tool_pc[p] = "handshake"
    /\ conns' = ConnectToTarget(conns, ok)
    /\ LET n == IF ok THEN Goes("swap", NoResult)
                ELSE ReconnectFailed(tool_kind[p])
       IN  /\ tool_pc' = [tool_pc EXCEPT ![p] = n.pc]
           /\ tool_out' = [tool_out EXCEPT ![p] = n.out]
    /\ tool_new' = [tool_new EXCEPT ![p] = IF ok THEN Len(conns') ELSE 0]
    /\ UNCHANGED <<util, conn, pump, events, task, hist, live, tool_kind, tool_conn,
                   tool_id, tool_rx, toolhist>>

\* self.live.swap(new_conn).await
ToolSwap(p) ==
    /\ tool_pc[p] = "swap"
    /\ HolderBusy \subseteq {p}
    /\ live' = tool_new[p]
    /\ installed' = Append(installed, SwapRecord(p, tool_new[p]))
    /\ tool_new' = [tool_new EXCEPT ![p] = 0]
    /\ LET n == AfterSwap(tool_kind[p])
       IN  /\ tool_pc' = [tool_pc EXCEPT ![p] = n.pc]
           /\ tool_out' = [tool_out EXCEPT ![p] = n.out]
    /\ UNCHANGED <<util, conn, pump, events, task, hist, conns, tool_kind, tool_conn,
                   tool_id, tool_rx, tool_seen, tool_log>>

\* the writer task of connection h writes the next command
ConnWrite(h) ==
    /\ conns[h].writer = "running"
    /\ conns[h].queue # <<>>
    /\ conns' = [conns EXCEPT ![h].queue = Tail(@),
                              ![h].wire = @ \cup {Head(conns[h].queue).id}]
    /\ UNCHANGED <<util, conn, pump, events, task, hist, live, tool, toolhist>>

\* its write fails: break, and cmd_receiver is dropped
ConnWriteFail(h) ==
    /\ conns[h].writer = "running"
    /\ conns[h].queue # <<>>
    /\ conns' = [conns EXCEPT ![h].queue = <<>>, ![h].writer = "failed"]
    /\ UNCHANGED <<util, conn, pump, events, task, hist, live, tool, toolhist>>

\* a holder whose handles stop counting once they are handed out
Holders_lent(h) == {p \in Procs : tool_new[p] = h}

\* the processes that hold handle h: a send borrows it until it returns, and
\* exec_with_reconnect keeps the handle of its first send until it returns
Holders(h) ==
    {p \in Procs :
        \/ tool_pc[p] \in {"send", "await", "serve"} /\ tool_conn[p] = h
        \/ /\ tool_kind[p] = "exec" /\ tool_pc[p] # "done"
           /\ tool_log[p] # <<>> /\ tool_log[p][1].h = h
        \/ tool_new[p] = h}

\* the last handle of connection h is gone, and cmd_sender with it:
\* cmd_receiver.recv() yields None and the writer task ends.  CdpConnection
\* has no Drop of its own; its pending map stays as it is, the reader task
\* holds it.
WriterEnds(h) ==
    /\ conns[h].writer = "running"
    /\ live # h
    /\ Holders(h) = {}
    /\ conns' = [conns EXCEPT ![h].queue = <<>>, ![h].writer = "ended"]
    /\ UNCHANGED <<util, conn, pump, events, task, hist, live, tool, toolhist>>

\* the answers the far end can give to command i
ResponsesTo(i) == {f \in IdFrames(i) : f.result.some # f.error.some}

\* the receiver of process q's slot is alive while that send has not returned
ToolReceiverAlive(q, h, i) ==
    tool_pc[q] = "await" /\ tool_conn[q] = h /\ tool_id[q] = i

\* the reader task of connection h reads the response f to a command written
\* on h: pending.remove(id), then the oneshot send
ConnFrame(h, f) ==
    LET i == SlotKey(f)
        c == conns[h]
    IN  /\ c.reader = "running"
        /\ i \in c.wire
        /\ FrameKind(f) = "response"
        /\ IF i \in DOMAIN c.pending
           THEN /\ conns' = [conns EXCEPT ![h].wire = @ \ {i},
                                          ![h].pending = MapRemove(@, i)]
                /\ tool_rx' = IF ToolReceiverAlive(c.pending[i], h, i)
                              THEN [tool_rx EXCEPT ![c.pending[i]] =
                                        ToolRxFull(SlotValue(f), h)]
                              ELSE tool_rx
           ELSE /\ conns' = [conns EXCEPT ![h].wire = @ \ {i}]
                /\ UNCHANGED tool_rx
        /\ UNCHANGED <<util, conn, pump, events, task, hist, live, tool_kind, tool_pc,
                       tool_conn, tool_id, tool_new, tool_out, toolhist>>

\* ws_read.next() of connection h yields None or an error: its reader ends.
\* The end of the stream is followed while a command waits for its answer;
\* one that is read earlier shows in nothing before the next command is
\* written, and from then on the two are the same.
ConnReaderExit(h) ==
    /\ conns[h].reader = "running"
    /\ conns[h].wire # {}
    /\ conns' = [conns EXCEPT ![h].reader = "stopped"]
    /\ UNCHANGED <<util, conn, pump, events, task, hist, live, tool, toolhist>>

\* ---------------------------------------------------------- commands.rs
Chars == {"a", "b", "c"}
Texts == UNION {[1..n -> Chars] : n \in 0..MaxTextLen}

\* key_event(event_type, text): ("Input.dispatchKeyEvent", {type, text})
KeyEvent(event_type, t) ==
    [method |-> "Input.dispatchKeyEvent", type |-> event_type, text |-> t]

\* type_text(text): text.chars().flat_map(|c| vec![key_event("char", &s)])
RECURSIVE TypeText(_)
TypeText(txt) ==
    IF txt = <<>> THEN <<>>
    ELSE <<KeyEvent("char", Head(txt))>> \o TypeText(Tail(txt))

\* a call of type_text
TypeTextCall ==
    /\ ~keys.done
    /\ keys' = Returned(TypeText(text))
    /\ UNCHANGED <<conn, pump, events, task, hist, tools, resp_log, text,
                   finding, waiting, launching>>

\* ----------------------------------------------------------- browser.rs
\* Result<String, BrowserError> of the functions that look for a target
FoundUrl(u) == [tag |-> "Ok", url |-> u]
BrowserTimeout == [tag |-> "Timeout", url |-> ""]
LaunchFailed == [tag |-> "LaunchFailed", url |-> ""]

\* one entry of the /json listing: "type", "id" ("" when the member is
\* missing, browser.rs:113) and "webSocketDebuggerUrl" when it is a string
TargetIds == {"A", "B"}
Urls == {"ws1", "ws2"}
TargetEntries ==
    [type : {"page", "worker"}, id : TargetIds,
     url : {None("")} \cup {Some(u) : u \in Urls}]
Listings == UNION {[1..n -> TargetEntries] : n \in 0..MaxTargets}
Replies ==
    {[kind |-> "failed", list |-> <<>>], [kind |-> "unparsable", list |-> <<>>]}
        \cup {[kind |-> "list", list |-> l] : l \in Listings}
\* the HTTP client could not be built: no request is made
NoClient == [kind |-> "noclient", list |-> <<>>]

\* a filter that takes a page whatever its id
Selected_anyid(target, wanted) == target.type = "page"

\* the two `continue`s of the loop: not a page; an id is wanted and this is
\* another
Selected(target, wanted) ==
    /\ target.type = "page"
    /\ wanted.some => target.id = wanted.v

\* for target in &targets { ..; if let Some(ws_url) = .. { return Ok } }
\* Err(BrowserError::Timeout)
RECURSIVE FirstUrl(_, _)
FirstUrl(list, wanted) ==
    IF list = <<>> THEN BrowserTimeout
    ELSE IF Selected(Head(list), wanted) /\ Head(list).url.some
         THEN FoundUrl(Head(list).url.v)
         ELSE FirstUrl(Tail(list), wanted)

\* find_target_ws_url(port, target_id): a failed request and a failed parse
\* both map to Timeout
FindTargetWsUrl(rep, wanted) ==
    IF rep.kind = "noclient" THEN LaunchFailed
    ELSE IF rep.kind # "list" THEN BrowserTimeout
    ELSE FirstUrl(rep.list, wanted)

\* a call of find_target_ws_url
FindCall ==
    /\ ~ws_url.done
    /\ ws_url' = Returned(FindTargetWsUrl(targets, target_id))
    /\ UNCHANGED <<conn, pump, events, task, hist, tools, resp_log, typing,
                   targets, target_id, waiting, launching>>

\* LaunchResult::Existing { ws_url } and LaunchResult::Spawned { child, ws_url }
Existing(u) == [tag |-> "Existing", url |-> u]
Spawned(u) == [tag |-> "Spawned", url |-> u]

\* the browser when the program starts: none, one that runs without a
\* debugging endpoint, one whose debugging endpoint answers on the port
Browsers == {"absent", "running", "debugging"}

\* what try_connect_existing's request can bring: a listing when an endpoint
\* answers, a refused connection when none does
FirstReplies(b) ==
    IF b = "debugging" THEN {r \in Replies : r.kind = "list"}
    ELSE {[kind |-> "failed", list |-> <<>>]}

\* launch, first step: if let Ok(ws_url) = try_connect_existing(port)
\*   { return Ok(Existing { ws_url }) }
LaunchTry(rep) ==
    /\ launch_pc = "try"
    /\ rep \in FirstReplies(browser)
    /\ LET found == FindTargetWsUrl(rep, None(""))
       IN  IF found.tag = "Ok"
           THEN launch_out' = Existing(found.url) /\ launch_pc' = "launched"
           ELSE launch_out' = launch_out /\ launch_pc' = "profile"
    /\ UNCHANGED <<conn, pump, events, task, hist, tools, resp_log, typing,
                   finding, waiting, dedicated, browser, polls, reply,
                   seen_ready, child, killed>>

\* is_process_running(exe_name): tasklist names the image; false when
\* tasklist cannot be run
IsProcessRunning(b, tasklist_ok) == tasklist_ok /\ b # "absent"

\* if !config.dedicated_profile { if is_process_running(..) { kill_process(..);
\* sleep(2s) } }
LaunchProfile(tasklist_ok) ==
    /\ launch_pc = "profile"
    /\ killed' = IF ~dedicated /\ IsProcessRunning(browser, tasklist_ok)
                 THEN Append(killed, "existing") ELSE killed
    /\ launch_pc' = "spawn"
    /\ UNCHANGED <<conn, pump, events, task, hist, tools, resp_log, typing,
                   finding, waiting, dedicated, browser, polls, reply,
                   seen_ready, child, launch_out>>

\* Command::new(..).spawn().map_err(LaunchFailed)?
LaunchSpawn(ok) ==
    /\ launch_pc = "spawn"
    /\ IF ok THEN child' = TRUE /\ launch_pc' = "poll" /\ launch_out' = launch_out
       ELSE child' = child /\ launch_pc' = "failed" /\ launch_out' = LaunchFailed
    /\ UNCHANGED <<conn, pump, events, task, hist, tools, resp_log, typing,
                   finding, waiting, dedicated, browser, polls, reply,
                   seen_ready, killed>>

PollAttempts == 30   \* for _ in 0..30

\* a loop that runs once more
PollsLeft_more(n) == n <= PollAttempts

\* for _ in 0..30
PollsLeft(n) == n < PollAttempts

\* for target in &targets { if type == Some("page") { if let Some(ws_url) =
\* .. { return Ok(ws_url) } } }
RECURSIVE FirstPageUrl(_)
FirstPageUrl(list) ==
    IF list = <<>> THEN BrowserTimeout
    ELSE IF Head(list).type = "page" /\ Head(list).url.some
         THEN FoundUrl(Head(list).url.v)
         ELSE FirstPageUrl(Tail(list))

\* what a poll's request can bring; the loop does not read the id member, so
\* one id stands for all
PollReplies ==
    {r \in Replies :
        \A i \in DOMAIN r.list : r.list[i].id = CHOOSE t \in TargetIds : TRUE}

\* what one iteration finds: nothing when the request or the parse fails
\* (`continue`), else the first ready page of the listing
PollFinds(rep) ==
    IF rep.kind # "list" THEN BrowserTimeout ELSE FirstPageUrl(rep.list)

\* one iteration of poll_until_ready, and launch's return when it ends
LaunchPoll(rep) ==
    /\ launch_pc = "poll"
    /\ PollsLeft(polls)
    /\ rep \in PollReplies
    /\ polls' = polls + 1
    /\ reply' = rep
    /\ LET found == PollFinds(rep)
       IN  /\ seen_ready' = (seen_ready \/ found.tag = "Ok")
           /\ IF found.tag = "Ok"
              THEN launch_out' = Spawned(found.url) /\ launch_pc' = "launched"
              ELSE launch_out' = launch_out /\ launch_pc' = "poll"
    /\ UNCHANGED <<conn, pump, events, task, hist, tools, resp_log, typing,
                   finding, waiting, dedicated, browser, child, killed>>

\* the loop is over: Err(BrowserError::Timeout), which launch returns
LaunchPollTimeout ==
    /\ launch_pc = "poll"
    /\ ~PollsLeft(polls)
    /\ launch_out' = BrowserTimeout
    /\ launch_pc' = "failed"
    /\ UNCHANGED <<conn, pump, events, task, hist, tools, resp_log, typing,
                   finding, waiting, dedicated, browser, polls, reply,
                   seen_ready, child, killed>>

\* main between launch and shutdown: connect, the enables, serve and waiting
\* either all succeed or one of them returns through `?`
MainRuns(ok) ==
    /\ launch_pc = "launched"
    /\ launch_pc' = IF ok THEN "shutdown" ELSE "exit"
    /\ UNCHANGED <<conn, pump, events, task, hist, tools, resp_log, typing,
                   finding, waiting, dedicated, browser, polls, reply,
                   seen_ready, child, launch_out, killed>>

\* main's child: Some(child) for Spawned, None for Existing
MainChild == launch_out.tag = "Spawned" /\ child

\* browser::shutdown(child): if let Some(mut c) = child { c.kill(); c.wait() }
Shutdown ==
    /\ launch_pc = "shutdown"
    /\ killed' = IF MainChild THEN Append(killed, "child") ELSE killed
    /\ launch_pc' = "done"
    /\ UNCHANGED <<conn, pump, events, task, hist, tools, resp_log, typing,
                   finding, waiting, dedicated, browser, polls, reply,
                   seen_ready, child, launch_out>>

\* ------------------------------------------------------ server.rs: wait_for
DefaultTimeoutMs == 5000   \* timeout_ms.unwrap_or(5000)
PollInterval == 200        \* let interval = 200u64

\* let timeout = timeout_ms.unwrap_or(5000)
WaitTimeout(t) == IF t.some THEN t.v ELSE DefaultTimeoutMs

\* a loop bound that rounds up
MaxAttempts_ceil(timeout) == (timeout + PollInterval - 1) \div PollInterval

\* let max_attempts = timeout / interval (u64 division)
MaxAttempts(timeout) == timeout \div PollInterval

\* what one evaluation of the selector brings: the element is there
\* (value true), it is not (anything else), or cdp::execute returned Err
PollOutcomes == {"found", "absent", "failed"}

\* one iteration of the loop: execute(...)?; if found { return Ok }; sleep
WaitPoll(o) ==
    /\ wait_out = "-"
    /\ Len(polled) < MaxAttempts(WaitTimeout(timeout_ms))
    /\ polled' = Append(polled, o)
    /\ wait_out' = CASE o = "found" -> "found"
                     [] o = "failed" -> "error"
                     [] OTHER -> "-"
    /\ UNCHANGED <<conn, pump, events, task, hist, tools, resp_log, typing,
                   finding, timeout_ms, launching>>

\* the loop is over: Err("Timeout waiting for ..")
WaitGiveUp ==
    /\ wait_out = "-"
    /\ Len(polled) >= MaxAttempts(WaitTimeout(timeout_ms))
    /\ wait_out' = "timeout"
    /\ UNCHANGED <<conn, pump, events, task, hist, tools, resp_log, typing,
                   finding, timeout_ms, polled, launching>>

\* ---------------------------------------------------------- specification
\* the next step of caller t
CallerStep(t) ==
    \/ ExecuteSequenceReturn(t)
    \/ SendAlloc(t)
    \/ SendRegister(t)
    \/ SendEnqueue(t)
    \/ SendAwait(t)

TaskStep == \E t \in Tasks : CallerStep(t)

\* commands and responses: callers, the writer, the reader and response frames
Next ==
    \/ TaskStep
    \/ WriterWrite
    \/ WriterFail
    \/ \E f \in WireResponses : ResponseArrives(f)
    \/ ReaderExit

Spec == Init /\ [][Next]_vars

\* The runtime runs every task that can run: a caller that is not suspended
\* takes its next step, and the writer handles a queued command.  Frames,
\* read errors and the end of the stream come from outside.
FairSpec ==
    /\ Spec
    /\ \A t \in Tasks : WF_vars(CallerStep(t))
    /\ WF_vars(WriterWrite \/ WriterFail)

\* an open session: every kind of frame, the event channel, and callers of
\* plain send
NextFrames ==
    \/ TaskStep
    \/ WriterWrite
    \/ \E f \in Frames : FrameArrives(f)
    \/ SubscribeEvents
    \/ EventRecv

SpecFrames == InitFrames /\ [][NextFrames]_vars

\* the program has nothing to run: every caller has returned or waits for its
\* response, and the queue is written out
Idle ==
    /\ cmd_queue = <<>>
    /\ \A t \in Tasks : pc[t] = "done" \/ (pc[t] = "await" /\ rx[t].state = "empty")

\* events without end and a subscriber that never takes one; the events come
\* while the program is idle, the responses to the sends in progress at any
\* time
NextFlood ==
    \/ TaskStep
    \/ WriterWrite
    \/ \E f \in EventFrames : Idle /\ FrameRead(f)
    \/ \E f \in WireResponses : f.id.v \in DOMAIN pending /\ FrameRead(f)
    \/ SubscribeEvents

SpecFlood == InitFrames /\ [][NextFlood]_vars

\* events a subscriber can tell apart, taken one by one, among commands and
\* responses
NextEvents ==
    \/ TaskStep
    \/ WriterWrite
    \/ \E f \in WireEvents : EventArrives(f)
    \/ \E f \in WireResponses : ResponseArrives(f)
    \/ SubscribeEvents
    \/ EventTaken

SpecEvents == InitFrames /\ [][NextEvents]_vars

\* callers that may give up waiting, on an open session
NextCancel ==
    \/ TaskStep
    \/ \E t \in Tasks : SendAbandon(t)
    \/ WriterWrite
    \/ \E f \in WireResponses : ResponseArrives(f)

SpecCancel == InitCancel /\ [][NextCancel]_vars

\* responses of every shape (result and error each present or not) to the
\* sends in progress
NextOutcome ==
    \/ TaskStep
    \/ WriterWrite
    \/ \E f \in ResponseFrames : ResponseLogged(f)

SpecOutcome == InitCancel /\ [][NextOutcome]_vars

\* the whole program: main, the server's methods run by concurrent tool
\* calls, and the tasks and the far end of every connection
NextLive ==
    \/ \E ok \in BOOLEAN : MainConnect(ok)
    \/ MainServe
    \/ \E p \in Tools : ToolGet(p)
    \/ \E p \in Procs : ToolSend(p)
    \/ \E p \in Procs : ToolAwait(p)
    \/ \E p \in Tools : \E ok \in BOOLEAN : Discover(p, ok)
    \/ \E p \in Tools : \E ok \in BOOLEAN : Handshake(p, ok)
    \/ \E p \in Tools : ToolSwap(p)
    \/ \E h \in DOMAIN conns : ConnWrite(h)
    \/ \E h \in DOMAIN conns : ConnWriteFail(h)
    \/ \E h \in DOMAIN conns : WriterEnds(h)
    \/ \E h \in DOMAIN conns : \E i \in conns[h].wire :
           \E f \in ResponsesTo(i) : ConnFrame(h, f)
    \/ \E h \in DOMAIN conns : ConnReaderExit(h)

SpecLive == InitLive /\ [][NextLive]_vars

\* the same program with the methods that send on get() directly
InitSeq == ConnInit({[t \in Tasks |-> 0]}) /\ ToolsInit(DirectKinds) /\ UtilInit
SpecSeq == InitSeq /\ [][NextLive]_vars

\* nothing of the connection or of the server runs
Quiet == ConnInit({[t \in Tasks |-> 0]}) /\ ToolsInit(NoTools) /\ resp_log = <<>>

\* type_text on every text of up to MaxTextLen characters
InitType == Quiet /\ TypeInit(Texts) /\ FindIdle /\ WaitIdle /\ LaunchIdle
NextType == TypeTextCall
SpecType == InitType /\ [][NextType]_vars

\* find_target_ws_url on every reply and every wanted id
InitFind ==
    /\ Quiet /\ TypeIdle /\ WaitIdle /\ LaunchIdle
    /\ FindInit(Replies \cup {NoClient},
                {None("")} \cup {Some(i) : i \in TargetIds})
NextFind == FindCall
SpecFind == InitFind /\ [][NextFind]_vars

\* wait_for with no timeout_ms and with every timeout_ms up to MaxTimeoutMs
InitWait ==
    /\ Quiet /\ TypeIdle /\ FindIdle /\ LaunchIdle
    /\ WaitInit({None(0)} \cup {Some(n) : n \in 0..MaxTimeoutMs})
NextWait == (\E o \in PollOutcomes : WaitPoll(o)) \/ WaitGiveUp
SpecWait == InitWait /\ [][NextWait]_vars

\* main from launch to shutdown, for every browser found at start
InitLaunch ==
    /\ Quiet /\ TypeIdle /\ FindIdle /\ WaitIdle
    /\ LaunchInit({"try"}, BOOLEAN, Browsers)
NextLaunch ==
    \/ \E rep \in FirstReplies(browser) : LaunchTry(rep)
    \/ \E ok \in BOOLEAN : LaunchProfile(ok)
    \/ \E ok \in BOOLEAN : LaunchSpawn(ok)
    \/ \E rep \in PollReplies : LaunchPoll(rep)
    \/ LaunchPollTimeout
    \/ \E ok \in BOOLEAN : MainRuns(ok)
    \/ Shutdown
SpecLaunch == InitLaunch /\ [][NextLaunch]_vars

\* ================================================================== claims
\* the ids task t has allocated, the one of the send in progress included
InCall(t) == pc[t] \in {"register", "enqueue", "await"}
IdsOf(t) ==
    {call_log[t][k][1] : k \in DOMAIN call_log[t]}
        \cup (IF InCall(t) THEN {cur_id[t]} ELSE {})
AllocatedIds == UNION {IdsOf(t) : t \in Tasks}
Range(q) == {q[i] : i \in DOMAIN q}

\* ---- C1
\* C1: whatever a send call returns from a response (a result or a protocol
\* error) is the payload of a frame that carried the id this call allocated,
\* whatever the order in which the responses arrive; the same holds for a
\* value already placed in the call's slot.
CorrelationCorrect ==
    /\ \A t \in Tasks : \A k \in DOMAIN call_log[t] :
         LET id == call_log[t][k][1]
             r == call_log[t][k][2]
         IN  /\ r.tag = "Ok" => r.val.for = id
             /\ r.tag = "ResponseError" => r.message = id
    /\ \A t \in Tasks :
         rx[t].state = "full" =>
            IF rx[t].r.tag = "Ok" THEN rx[t].r.val.for = cur_id[t]
            ELSE rx[t].r.err.message = cur_id[t]

\* two commands are on the wire, the later id has been answered and its call
\* has returned, the earlier one is still suspended
OutOfOrderArrival ==
    \E t1, t2 \in Tasks :
        /\ t1 # t2
        /\ pc[t1] = "await" /\ rx[t1].state = "empty"
        /\ \E k \in DOMAIN call_log[t2] :
              /\ call_log[t2][k][2].tag = "Ok"
              /\ call_log[t2][k][1] > cur_id[t1]
              /\ {cur_id[t1], call_log[t2][k][1]} \subseteq {c.id : c \in Range(wire_out)}

\* ---- C2
CallReturned(t, k) == Len(call_log[t]) >= k
\* C2: a send call that is suspended while the reader is running returns
\* once the reader loop has ended (end of stream or read error).
AbandonedOnTeardown ==
    \A t \in Tasks : \A k \in 1..MaxSeqLen :
        [](pc[t] = "await" /\ pos[t] = k /\ reader = "running"
             => [](reader = "stopped" => <>CallReturned(t, k)))

\* ---- C3
\* C3: a send call issued after the reader or the writer loop has stopped
\* never suspends: it is never found waiting for its slot.
DeadSessionSendNeverSuspends ==
    \A t \in Tasks : issued[t] = "dead" => pc[t] # "await"

\* ---- C4
IdsDistinct ==
    /\ AllocatedIds = FirstId..(next_id - 1)
    /\ \A t1, t2 \in Tasks : t1 # t2 => IdsOf(t1) \cap IdsOf(t2) = {}
    /\ \A t \in Tasks :
         Cardinality(IdsOf(t)) = Len(call_log[t]) + (IF InCall(t) THEN 1 ELSE 0)
    /\ \A t \in Tasks :
         pc[t] \in {"enqueue", "await"} /\ rx[t].state = "empty"
            => cur_id[t] \in DOMAIN pending /\ pending[cur_id[t]] = <<t, pos[t]>>
IdsIncrease ==
    \A t \in Tasks :
        pos'[t] # pos[t] => \A i \in AllocatedIds : cur_id'[t] > i
NoOverwrite ==
    \A i \in DOMAIN pending : i \in DOMAIN pending' => pending'[i] = pending[i]
\* C4: the ids allocated so far are exactly FirstId .. next_id - 1, one per
\* send call; a newly allocated id is greater than every id allocated before;
\* every send in progress that has registered and not been answered owns the
\* slot under its id; and no step replaces the sender stored under an id.
UniqueIds == []IdsDistinct /\ [][IdsIncrease /\ NoOverwrite]_vars

\* two sends are in progress at once, each with its own slot
TwoLiveSlots ==
    \E t1, t2 \in Tasks :
        /\ t1 # t2
        /\ pc[t1] = "await" /\ pc[t2] = "await"
        /\ {cur_id[t1], cur_id[t2]} \subseteq DOMAIN pending

\* ---- C5
SlotOf(c) == <<c.method[1], c.method[2]>>
SlotConsumed(c) ==
    LET t == c.method[1]
        k == c.method[2]
    IN  \/ CallReturned(t, k)
        \/ pos[t] = k /\ rx[t].state = "full"
\* C5: every command that was handed to the writer (queued, written, or
\* dropped with the queue) had its slot registered first: the slot is in the
\* table under the command's id, or it has been taken out and its value
\* delivered.
RegisteredBeforeEnqueue ==
    \A c \in Range(enq_log) \cup Range(cmd_queue) \cup Range(wire_out) :
        \/ c.id \in DOMAIN pending /\ pending[c.id] = SlotOf(c)
        \/ SlotConsumed(c)

\* a command is on the wire and its slot is waiting in the table
WrittenWithSlot ==
    \E c \in Range(wire_out) : c.id \in DOMAIN pending /\ pending[c.id] = SlotOf(c)

\* ---- C6
EventStep(f) ==
    /\ UNCHANGED <<pending, rx, pc, pos, last_result, outcome, call_log, cmd_queue>>
    /\ ev_buf' = IF subscribed THEN Append(ev_buf, CdpEvent(f.method.v, Null))
                 ELSE ev_buf
\* C6: when the reader handles an event frame, the table of pending slots,
\* every caller's receiver and every caller's progress are left as they
\* were, and the event goes to the subscriber, when there is one, and nowhere
\* else.
EventDecoupled == [][\A f \in EventFrames : FrameArrives(f) => EventStep(f)]_vars

\* an event frame arrived while slots were pending; the subscriber has it and
\* the slots are still there
EventWhilePending ==
    /\ last.kind = "event" /\ last.n >= 1
    /\ subscribed /\ ev_buf # <<>>
    /\ Cardinality(DOMAIN pending) = last.n

\* ---- C7
HandedToWriter == Range(enq_log) \cup Range(cmd_queue) \cup Range(wire_out)
\* C7: when the send at position k of a command list fails, execute_sequence
\* has returned that send's error, k is the last send it made, and no command
\* of a later position was ever handed to the writer.
ShortCircuit ==
    \A t \in Tasks : \A k \in DOMAIN call_log[t] :
        IsErr(call_log[t][k][2]) =>
            /\ pc[t] = "done"
            /\ outcome[t] = call_log[t][k][2]
            /\ Len(call_log[t]) = k /\ pos[t] = k
            /\ \A c \in HandedToWriter : c.method[1] = t => c.method[2] <= k

\* a list of at least two commands whose first command failed with the far
\* end's error
FirstOfSeveralFailed ==
    \E t \in Tasks :
        /\ len[t] >= 2
        /\ Len(call_log[t]) = 1
        /\ call_log[t][1][2].tag = "ResponseError"
        /\ pc[t] = "done"

\* ---- C8
\* C8: a command of position k > 1 has been handed to the writer only if the
\* send of position k - 1 returned Ok and its slot is out of the table; the
\* commands of one list are handed over in list order; and an execute_sequence
\* that returned Ok made every send of its list and returned the last one's
\* result.
StrictlySequential ==
    /\ \A c \in HandedToWriter :
         LET t == c.method[1]
             k == c.method[2]
         IN  k > 1 =>
               /\ CallReturned(t, k - 1)
               /\ call_log[t][k - 1][2].tag = "Ok"
               /\ call_log[t][k - 1][1] \notin DOMAIN pending
    /\ \A i, j \in DOMAIN enq_log :
         i < j /\ enq_log[i].method[1] = enq_log[j].method[1]
            => enq_log[i].method[2] < enq_log[j].method[2]
    /\ \A t \in Tasks :
         pc[t] = "done" /\ outcome[t].tag = "Ok" /\ len[t] > 0 =>
            /\ Len(call_log[t]) = len[t]
            /\ outcome[t] = call_log[t][len[t]][2]

\* a list of at least two commands ran to its end
SequenceCompleted ==
    \E t \in Tasks :
        /\ len[t] >= 2
        /\ pc[t] = "done" /\ outcome[t].tag = "Ok"
        /\ outcome[t].val.for = call_log[t][len[t]][1]

\* ---- C9
IsPrefix(p, q) == Len(p) <= Len(q) /\ \A i \in DOMAIN p : p[i] = q[i]
\* C9: the commands on the wire are, in order, the first commands accepted by
\* the queue; while the writer runs, the queue holds the rest; and the
\* commands of one caller are on the wire in the order of its send calls.
FifoWriter ==
    /\ IsPrefix(wire_out, enq_log)
    /\ writer = "running" => enq_log = wire_out \o cmd_queue
    /\ \A i, j \in DOMAIN wire_out :
         i < j /\ wire_out[i].method[1] = wire_out[j].method[1]
            => wire_out[i].method[2] < wire_out[j].method[2]

\* two commands were queued together and both are on the wire
TwoWritten ==
    /\ Len(wire_out) >= 2
    /\ \E t \in Tasks : pc[t] = "await" /\ cur_id[t] = wire_out[1].id

\* ---- C10
MalformedStep ==
    /\ reader' = "running"
    /\ UNCHANGED <<pending, rx, pc, pos, last_result, outcome, call_log, ev_buf>>
ResolvedBy(f) ==
    /\ f.id.v \notin DOMAIN pending'
    /\ ReceiverAlive(pending[f.id.v])
          => rx'[pending[f.id.v][1]] = RxFull(SlotValue(f))
\* C10: a frame whose body does not parse leaves the reader running and
\* changes no slot, no receiver, no caller and no event buffer; and a response
\* that arrives right after it for a pending id takes the slot out of the
\* table and delivers its value.
MalformedSkipped ==
    [][/\ FrameArrives(MalformedFrame) => MalformedStep
       /\ \A f \in ResponseFrames :
            last.kind = "malformed" /\ f.id.v \in DOMAIN pending /\ FrameArrives(f)
               => ResolvedBy(f)]_vars

\* a response found its slot right after a malformed frame
ResponseAfterMalformed ==
    /\ last.kind = "response" /\ last.hit /\ last.prev = "malformed"
    /\ reader = "running"
    /\ \E t \in Tasks : cur_id[t] = last.id /\ rx[t].state = "full"

\* ---- C11
\* C11: a frame that carries both an id and a method, or neither of them, is
\* dropped: the reader resolves no pending slot, fills no receiver and
\* publishes no event for it.
OtherShapesDropped ==
    [][\A f \in MixedFrames \cup {EmptyFrame} :
          FrameArrives(f) => UNCHANGED <<pending, rx, ev_buf>>]_vars

\* ---- C12
\* C12: once a write has failed and the writer loop has ended, the reader
\* loop ends too, whether or not the far end closes the connection.
WriteFailureStopsReader == [](writer = "stopped" => <>(reader = "stopped"))

\* ---- C13
\* C13: once the reader loop has ended (end of stream or read error), the
\* writer loop ends too.
ReaderExitStopsWriter == [](reader = "stopped" => <>(writer = "stopped"))

\* ---- C14
Unusable == writer = "stopped" \/ reader = "stopped"
OnWire(i) == \E c \in Range(wire_out) : c.id = i
\* C14: once the connection is unusable (a write has failed or the reader
\* loop has ended), no send whose command is on the wire and whose response
\* has not been delivered is given a successful result.
FatalIsFinal ==
    [][\A t \in Tasks :
          /\ Unusable
          /\ pc[t] = "await" /\ OnWire(cur_id[t]) /\ rx[t].state = "empty"
          => ~(rx'[t].state = "full" /\ rx'[t].r.tag = "Ok")]_vars

\* ---- C15
ErrorFrames == {f \in WireResponses : f.error.some}
\* C15: a response frame with an error object for a pending id takes that
\* id's slot, and only that one, out of the table and puts the error in its
\* owner's receiver, and in no other; the reader and the writer stay as they
\* were; and the owner's send returns ResponseError with the code and the
\* message of the frame.
ProtocolErrorIsCallSpecific ==
    [][/\ \A f \in ErrorFrames :
            f.id.v \in DOMAIN pending /\ ResponseArrives(f) =>
               LET s == pending[f.id.v]
               IN  /\ pending' = MapRemove(pending, f.id.v)
                   /\ ReceiverAlive(s) => rx'[s[1]] = RxFull(SlotErr(f.error.v))
                   /\ \A t \in Tasks : t # s[1] => rx'[t] = rx[t]
                   /\ UNCHANGED pump
       /\ \A t \in Tasks :
            pc[t] = "await" /\ rx[t].state = "full" /\ rx[t].r.tag = "Err"
               /\ SendAwait(t) =>
               LET r == call_log'[t][Len(call_log'[t])]
               IN  /\ Len(call_log'[t]) = Len(call_log[t]) + 1
                   /\ r[1] = cur_id[t]
                   /\ r[2].tag = "ResponseError"
                   /\ r[2].code = rx[t].r.err.code
                   /\ r[2].message = rx[t].r.err.message]_vars

\* one send returned the far end's error; a send issued after that, on the
\* same connection, returned Ok
ErrorThenSuccess ==
    \E t1, t2 \in Tasks :
        /\ t1 # t2
        /\ \E k \in DOMAIN call_log[t1] :
              /\ call_log[t1][k][2].tag = "ResponseError"
              /\ call_log[t1][k][2].code \in ErrCodes
              /\ call_log[t1][k][2].message = call_log[t1][k][1]
        /\ issued[t2] = "erred"
        /\ pc[t2] = "done" /\ outcome[t2].tag = "Ok" /\ Len(call_log[t2]) >= 1
        /\ reader = "running" /\ writer = "running"

\* ---- C16
\* C16: a response frame whose id has no slot in the table leaves the table,
\* every receiver, every caller and the event buffer as they were, and the
\* reader goes on running.
UnknownIdIgnored ==
    [][\/ /\ UNCHANGED <<pending, rx, ev_buf, pc, call_log, outcome>>
          /\ reader' = "running"
       \/ \A f \in ResponseFrames :
             ~(f.id.v \notin DOMAIN pending /\ FrameArrives(f))]_vars

\* a response for an id without a slot arrived while another send was waiting
UnknownIdWhilePending ==
    /\ last.kind = "response" /\ ~last.hit
    /\ reader = "running"
    /\ \E t \in Tasks :
          /\ pc[t] = "await" /\ rx[t].state = "empty"
          /\ cur_id[t] \in DOMAIN pending /\ cur_id[t] # last.id

\* ---- C17
\* id i went through the table: its send registered it
Registered(i) ==
    \E t \in Tasks :
        \/ pc[t] \in {"enqueue", "await"} /\ cur_id[t] = i
        \/ \E k \in DOMAIN call_log[t] : call_log[t][k][1] = i
Resolved(i) == Registered(i) /\ i \notin DOMAIN pending
\* C17: an id that has been taken out of the table never comes back into it;
\* a value delivered to a receiver is never replaced, it only leaves when its
\* send returns; and a response frame for an id already resolved changes no
\* slot, no receiver and no result.
ConsumedOnce ==
    [][/\ \A i \in FirstId..MaxId : Resolved(i) => i \notin DOMAIN pending'
       /\ \A t \in Tasks :
            rx[t].state = "full" =>
               \/ rx'[t] = rx[t]
               \/ rx'[t] = RxEmpty /\ Len(call_log'[t]) = Len(call_log[t]) + 1
       /\ \/ UNCHANGED <<pending, rx, call_log, outcome, last_result>>
          \/ \A f \in ResponseFrames : ~(Resolved(f.id.v) /\ FrameArrives(f))]_vars

\* a send returned what the first response for its id carried, and a second
\* response with the same id arrived afterwards and found no slot
SecondResponseIgnored ==
    /\ last.kind = "response" /\ ~last.hit
    /\ \E t \in Tasks : \E k \in DOMAIN call_log[t] :
          /\ call_log[t][k][1] = last.id
          /\ call_log[t][k][2].tag \in {"Ok", "ResponseError"}

\* ---- C18
\* C18: a caller that gives up waiting for its response leaves its slot in
\* the table; when the response for that slot arrives, the slot is taken out
\* of the table, nothing is delivered, no caller and no other slot changes,
\* and the reader goes on running.
AbandonedSlotIgnored ==
    [][/\ \A t \in Tasks :
            pc[t] = "await" /\ rx[t].state = "empty" /\ SendAbandon(t) =>
               pending' = pending /\ cur_id[t] \in DOMAIN pending'
       /\ \A f \in WireResponses :
            /\ f.id.v \in DOMAIN pending
            /\ pc[pending[f.id.v][1]] = "abandoned"
            /\ ResponseArrives(f)
            => /\ pending' = MapRemove(pending, f.id.v)
               /\ UNCHANGED <<rx, pc, call_log, outcome>>
               /\ reader' = "running"]_vars

\* a caller gave up before its response had come; the response came later and
\* its slot is out of the table, while another caller's slot is still waiting
AbandonedSlotResolved ==
    \E t1, t2 \in Tasks :
        /\ t1 # t2
        /\ pc[t1] = "abandoned" /\ rx[t1].state = "empty"
        /\ \E c \in Range(enq_log) : c.id = cur_id[t1]
        /\ cur_id[t1] \notin DOMAIN pending
        /\ pc[t2] = "await" /\ cur_id[t2] \in DOMAIN pending
        /\ reader = "running"

\* ---- C19
\* C19: while the reader runs it can always take the next event frame,
\* with no subscriber or with a channel full of events nobody has taken; an
\* event frame leaves the reader running, the slots and the receivers as they
\* were and at most EventCapacity events in the channel; and a response that
\* arrives right after it for a pending id takes the slot out of the table
\* and delivers its value.
EventNeverBlocks ==
    /\ [](reader = "running" => \A f \in EventFrames : ENABLED FrameRead(f))
    /\ [][/\ \A f \in EventFrames :
               FrameRead(f) =>
                  /\ reader' = "running"
                  /\ UNCHANGED <<pending, rx>>
                  /\ Len(ev_buf') <= EventCapacity
          /\ \A f \in WireResponses :
               last.kind = "event" /\ f.id.v \in DOMAIN pending /\ FrameRead(f)
                  => ResolvedBy(f)]_vars

\* an event arrived at a channel holding EventCapacity events, and the
\* response that came right after it reached its caller
ResolvedAfterDisplacedEvent ==
    /\ last.kind = "response" /\ last.hit
    /\ last.prev = "event" /\ last.chan = "displaced"
    /\ Len(ev_buf) = EventCapacity
    /\ \E t \in Tasks : cur_id[t] = last.id /\ rx[t].state = "full"

\* ---- C20
\* C20: the events the subscriber has taken, followed by those waiting for
\* it, are the event frames that arrived since some point of the arrival
\* order (its subscription), in that order, whatever commands and responses
\* went by in between.
EventsInArrivalOrder ==
    LET out == ev_got \o ev_buf
    IN  \E p \in 0..Len(ev_log) :
            /\ Len(out) = Len(ev_log) - p
            /\ \A i \in DOMAIN out : out[i] = EventOf(ev_log[p + i])

\* the subscriber took two different events, on a connection on which a send
\* got its response as well
TwoEventsTaken ==
    /\ Len(ev_got) >= 2 /\ ev_got[1] # ev_got[2]
    /\ \E t \in Tasks : Len(call_log[t]) >= 1 /\ call_log[t][1][2].tag = "Ok"

\* ------------------------------------------------- claims on the server
\* the swaps process p has made
SwapsBy(p) == {i \in DOMAIN installed : installed[i].by = p}
Execs == {p \in Tools : tool_kind[p] = "exec"}
TransportFailure(r) == r.tag \in {"SendFailed", "ResponseDropped"}
Answered(r) == r.tag \in {"Ok", "ResponseError"}

\* ---- C21
\* C21: the holder yields the handle installed last.  The handle a get
\* returned is the one installed by the latest swap completed when it
\* started, and every send of a tool method, whenever it returned, went on
\* the handle that was the latest when the method asked for it.
GetYieldsLatest ==
    /\ installed # <<>> => live = installed[Len(installed)].h
    /\ \A p \in Tools :
         /\ tool_pc[p] \in {"send", "await"} =>
                tool_conn[p] = installed[tool_seen[p].got].h
         /\ \A k \in DOMAIN tool_log[p] :
                tool_log[p][k].h = installed[tool_log[p][k].got].h

\* a send has returned that went on a handle got after a reconnect's swap
SentOnNewHandle ==
    \E p \in Tools : \E k \in DOMAIN tool_log[p] :
        /\ tool_log[p][k].got >= 2
        /\ tool_log[p][k].h = installed[tool_log[p][k].got].h
        /\ tool_log[p][k].h # installed[1].h
        /\ tool_log[p][k].r.tag = "Ok"

\* ---- C22
\* C22: a send that is suspended on the handle a swap replaces returns a
\* failure.
InFlightAtSwapFails ==
    \A i \in DOMAIN installed : \A c \in installed[i].inflight :
        Len(tool_log[c[1]]) >= c[2] => ~Answered(tool_log[c[1]][c[2]].r)

BothHandlesFunction ==
    \A p \in Tools : \A k \in DOMAIN tool_log[p] :
        LET e == tool_log[p][k]
        IN  /\ e.r.tag = "SendFailed" => conns[e.h].writer = "failed"
            /\ Answered(e.r) => e.via = e.h
            /\ e.r.tag = "Ok" /\ e.r.val # Null => e.r.val.for = e.id

\* with no send in flight a swap was made; a handle got before it and a
\* handle got after it have each carried a send, issued after the swap, to
\* its answer
SentOnBothHandles ==
    \E p, q \in Tools : \E k \in DOMAIN tool_log[p] : \E j \in DOMAIN tool_log[q] :
        LET e == tool_log[p][k]
            d == tool_log[q][j]
        IN  /\ e.got + 1 = e.at
            /\ installed[e.at].inflight = {}
            /\ e.r.tag = "Ok"
            /\ d.got = e.at /\ d.h # e.h
            /\ d.r.tag = "Ok"

\* ---- C25
\* C25: exec_with_reconnect retries exactly once.  It sends at most twice and
\* swaps at most once; it swaps only after a first send that returned
\* SendFailed or ResponseDropped; once it has swapped it sends the same
\* command a second time, and what that send returns is what it returns.
RetriesExactlyOnce ==
    \A p \in Execs :
        LET n == Len(tool_log[p])
        IN  /\ n <= 2
            /\ Cardinality(SwapsBy(p)) <= 1
            /\ SwapsBy(p) # {} => n >= 1 /\ TransportFailure(tool_log[p][1].r)
            /\ n = 2 => /\ SwapsBy(p) # {}
                        /\ tool_log[p][2].method = tool_log[p][1].method
            /\ tool_pc[p] = "done" /\ SwapsBy(p) # {} =>
                   n = 2 /\ tool_out[p] = tool_log[p][2].r
            /\ tool_pc[p] = "done" /\ n = 1 /\ ~TransportFailure(tool_log[p][1].r) =>
                   tool_out[p] = tool_log[p][1].r

\* a wrapper call has returned the Ok of its second send
RetriedOnce ==
    \E p \in Execs :
        /\ tool_pc[p] = "done"
        /\ Len(tool_log[p]) = 2
        /\ tool_log[p][1].r = SendFailed
        /\ tool_out[p].tag = "Ok"

\* ---- C26
\* C26: a connect whose handshake failed leaves nothing behind.  There are as
\* many connections, each with its writer and its reader, as handshakes that
\* succeeded; when main's connect returned ConnectionFailed there is none
\* and no handle.
ConnectionsMade ==
    (IF tool_conn[Main] # 0 THEN 1 ELSE 0)
        + Cardinality({p \in Tools : tool_new[p] # 0 \/ SwapsBy(p) # {}})
FailedConnectYieldsNothing ==
    /\ Len(conns) = ConnectionsMade
    /\ tool_out[Main] = ConnectionFailed =>
           conns = <<>> /\ live = 0 /\ tool_conn[Main] = 0

\* main's connect has returned ConnectionFailed
ConnectFailed == tool_pc[Main] = "done" /\ tool_out[Main] = ConnectionFailed

\* ---- C27
\* C27: the table holds no slot of a send that has returned, whatever it
\* returned.
NoSlotOfFinishedCall ==
    \A t \in Tasks : \A k \in DOMAIN call_log[t] :
        call_log[t][k][1] \notin DOMAIN pending

\* ---- C28
\* C28: exec_with_reconnect gives a protocol error back as it is.  After a
\* first send that returned ResponseError the wrapper has returned that
\* error; it has made no connection and no swap and has not sent again.
NoRetryOnProtocolError ==
    \A p \in Execs :
        tool_log[p] # <<>>
            /\ tool_log[p][1].r.tag \in {"ResponseError", "ConnectionFailed"} =>
            /\ tool_pc[p] = "done"
            /\ tool_out[p] = tool_log[p][1].r
            /\ Len(tool_log[p]) = 1
            /\ tool_new[p] = 0
            /\ SwapsBy(p) = {}

\* a wrapper call has returned the ResponseError of its first send
ProtocolErrorReturned ==
    \E p \in Execs :
        /\ tool_pc[p] = "done"
        /\ tool_out[p].tag = "ResponseError"
        /\ installed # <<>> /\ live = installed[1].h

\* ---- C29
\* C29: a failed reconnect changes nothing.  The holder's handle changes by
\* swaps only, and a method whose reconnect failed has made none;
\* exec_with_reconnect then has returned ConnectionFailed after one send.
ReconnectGaveUp(p) ==
    /\ tool_pc[p] = "done"
    /\ tool_log[p] # <<>>
    /\ IF tool_kind[p] = "exec" THEN tool_out[p] = ConnectionFailed
       ELSE tool_kind[p] = "switch" /\ tool_log[p][1].r.tag = "Ok"
                /\ tool_out[p] = InternalError
FailedReconnectChangesNothing ==
    /\ installed # <<>> => live = installed[Len(installed)].h
    /\ \A p \in Tools : ReconnectGaveUp(p) => SwapsBy(p) = {} /\ tool_new[p] = 0
    /\ \A p \in Execs :
           tool_pc[p] = "done" /\ tool_log[p] # <<>>
               /\ TransportFailure(tool_log[p][1].r) /\ SwapsBy(p) = {} =>
                   tool_out[p] = ConnectionFailed /\ Len(tool_log[p]) = 1

\* a wrapper's reconnect has failed at the handshake, and another one's at
\* the discovery, while the holder has its first handle
ReconnectsFailed ==
    /\ \E p \in Execs : ReconnectGaveUp(p)
    /\ \E p \in Tools : tool_kind[p] = "switch" /\ ReconnectGaveUp(p)
    /\ Len(installed) = 1 /\ live = installed[1].h

\* ---- C30
\* C30: each wrapper call that saw SendFailed or ResponseDropped makes its
\* own swap, and its second send goes on the handle that is current when it
\* asks: the one it installed or one installed after it, never the handle
\* of its first send.
RetryOnCurrentHandle ==
    \A p \in Execs :
        /\ tool_log[p] # <<>> /\ tool_pc[p] \in {"send", "await"} =>
               /\ tool_conn[p] # tool_log[p][1].h
               /\ \E i \in SwapsBy(p) :
                      /\ tool_seen[p].got >= i
                      /\ tool_conn[p] = installed[tool_seen[p].got].h
        /\ Len(tool_log[p]) = 2 =>
               /\ tool_log[p][2].h # tool_log[p][1].h
               /\ \E i \in SwapsBy(p) :
                      /\ tool_log[p][2].got >= i
                      /\ tool_log[p][2].h = installed[tool_log[p][2].got].h
                      /\ installed[i].h \notin {installed[j].h : j \in 1..(i - 1)}

\* two wrapper calls failed on the same handle and were reconnecting at the
\* same time; each has swapped, and both have retried, one of them on the
\* handle the other installed
ConcurrentReconnects ==
    \E p, q \in Execs :
        /\ p # q
        /\ Len(tool_log[p]) = 2 /\ Len(tool_log[q]) = 2
        /\ tool_log[p][1].h = tool_log[q][1].h
        /\ \E i \in SwapsBy(p) : q \in installed[i].others
        /\ \E j \in SwapsBy(q) : tool_log[p][2].h = installed[j].h

\* ---- C38
\* C38: for each character of the text, in order, type_text builds a char
\* key event followed by a keyUp key event.
CharThenKeyUp ==
    keys.done =>
        /\ Len(keys.v) = 2 * Len(text)
        /\ \A i \in DOMAIN text :
               /\ keys.v[2 * i - 1] = KeyEvent("char", text[i])
               /\ keys.v[2 * i] = KeyEvent("keyUp", text[i])

\* ---- C39
Qualifying ==
    {i \in DOMAIN targets.list :
        /\ targets.list[i].type = "page"
        /\ target_id.some => targets.list[i].id = target_id.v
        /\ targets.list[i].url.some}

\* C39: find_target_ws_url returns the debugger URL of the first listed
\* target that is a page, has the wanted id when one is given, and carries a
\* debugger URL; it returns an error when no listed target qualifies.
FirstQualifyingTarget ==
    ws_url.done =>
        IF Qualifying = {} THEN ws_url.v.tag \in {"Timeout", "LaunchFailed"}
        ELSE \E i \in Qualifying :
                /\ \A j \in Qualifying : i <= j
                /\ ws_url.v = FoundUrl(targets.list[i].url.v)

\* a page of another id and with another URL is listed before the wanted one
SkippedOtherPage ==
    /\ ws_url.done /\ target_id.some
    /\ Len(targets.list) = 2
    /\ targets.list[1].type = "page" /\ targets.list[1].url.some
    /\ targets.list[1].id # target_id.v
    /\ targets.list[2].url.some
    /\ targets.list[1].url.v # targets.list[2].url.v
    /\ ws_url.v = FoundUrl(targets.list[2].url.v)

\* ---- C37
GivenTimeout == IF timeout_ms.some THEN timeout_ms.v ELSE DefaultTimeoutMs
EarlierPollsFoundNothing ==
    \A i \in DOMAIN polled : i < Len(polled) => polled[i] = "absent"

\* C37: wait_for polls at most floor(timeout_ms / 200) times (5000 when no
\* timeout_ms is given); it returns success at the first poll that finds the
\* element, the error at the first poll that fails, and the timeout error
\* after the last poll, without any poll when timeout_ms is below 200.
WaitForPollsBounded ==
    /\ Len(polled) * PollInterval <= GivenTimeout
    /\ EarlierPollsFoundNothing
    /\ wait_out = "-" => \A i \in DOMAIN polled : polled[i] = "absent"
    /\ wait_out = "found" => polled # <<>> /\ polled[Len(polled)] = "found"
    /\ wait_out = "error" => polled # <<>> /\ polled[Len(polled)] = "failed"
    /\ wait_out = "timeout" =>
          /\ \A i \in DOMAIN polled : polled[i] = "absent"
          /\ (Len(polled) + 1) * PollInterval > GivenTimeout
    /\ (GivenTimeout < PollInterval /\ wait_out # "-") =>
          polled = <<>> /\ wait_out = "timeout"

\* a timeout that is no multiple of the interval runs out after its polls
TimedOutAfterPolls ==
    /\ wait_out = "timeout"
    /\ timeout_ms.some /\ timeout_ms.v % PollInterval # 0
    /\ Len(polled) >= 2

\* ---- C40
PagesListed == {i \in DOMAIN reply.list : reply.list[i].type = "page"}
ReadyPagesListed == {i \in PagesListed : reply.list[i].url.some}

\* C40 as stated: poll_until_ready makes at most 30 polls, returns the
\* debugger URL of the first page target at the first poll that lists a page
\* target, and returns Timeout after 30 polls without one.
ReturnsAtFirstPage ==
    /\ polls <= PollAttempts
    /\ launch_pc = "poll" => PagesListed = {}
    /\ launch_out.tag = "Spawned" =>
          \E i \in PagesListed :
              /\ \A j \in PagesListed : i <= j
              /\ reply.list[i].url = Some(launch_out.url)
    /\ launch_out.tag = "Timeout" => polls = PollAttempts

\* C40, amended: poll_until_ready makes at most 30 polls, returns the debugger
\* URL of the first page target that carries one at the first poll that
\* lists such a target (a failed request, an unparsable listing and a listing
\* without such a target each use up one poll), and returns Timeout after 30
\* polls without one.
ReturnsAtFirstReadyPage ==
    /\ polls <= PollAttempts
    /\ launch_pc = "poll" => ~seen_ready /\ ReadyPagesListed = {}
    /\ launch_out.tag = "Spawned" =>
          \E i \in ReadyPagesListed :
              /\ \A j \in ReadyPagesListed : i <= j
              /\ reply.list[i].url = Some(launch_out.url)
    /\ launch_out.tag = "Timeout" => polls = PollAttempts /\ ~seen_ready

\* poll_until_ready returned, after polls that brought nothing, the URL of a
\* page listed behind a page that carries none
ReadyPageBehindUnreadyOne ==
    /\ launch_out.tag = "Spawned"
    /\ polls >= 2
    /\ Len(reply.list) >= 2
    /\ reply.list[1].type = "page" /\ ~reply.list[1].url.some

\* ---- C35
\* C35: a browser that was already running with its debugging endpoint
\* available is never killed: launch returns Existing for it without killing
\* or spawning a process, and shutdown terminates the browser only when
\* launch spawned it.
ExistingBrowserNeverKilled ==
    /\ browser = "debugging" =>
          /\ "existing" \notin Range(killed)
          /\ ~child
    /\ "child" \in Range(killed) => child /\ launch_out.tag = "Spawned"

\* ---- C34
\* what the claim says the caller gets for frame f
OutcomeOf(f) ==
    IF f.error.some THEN ResponseError(f.error.v)
    ELSE IF f.result.some THEN Ok(f.result.v)
    ELSE Ok(Null)

\* C34: the caller of a send whose response frame arrived receives the
\* frame's error when the frame has an error object, even when a result is
\* present too; otherwise the frame's result, or null when the frame has no
\* result member.
OutcomeFollowsFrame ==
    /\ \A t \in Tasks : \A k \in DOMAIN call_log[t] :
          call_log[t][k][2].tag \in {"Ok", "ResponseError"} =>
             \E j \in DOMAIN resp_log :
                 /\ resp_log[j].id.v = call_log[t][k][1]
                 /\ call_log[t][k][2] = OutcomeOf(resp_log[j])
    /\ \A j \in DOMAIN resp_log : \A t \in Tasks :
          /\ pc[t] = "await" /\ cur_id[t] = resp_log[j].id.v
             => rx[t].state = "full"
          /\ \A k \in DOMAIN call_log[t] :
                call_log[t][k][1] = resp_log[j].id.v
                   => call_log[t][k][2] = OutcomeOf(resp_log[j])

\* a frame with an error and a result was answered with the error, and a
\* frame with neither with null
ErrorWonOverResult ==
    /\ \E j \in DOMAIN resp_log : \E t \in Tasks : \E k \in DOMAIN call_log[t] :
          /\ resp_log[j].error.some /\ resp_log[j].result.some
          /\ call_log[t][k] = <<resp_log[j].id.v, ResponseError(resp_log[j].error.v)>>
    /\ \E j \in DOMAIN resp_log : \E t \in Tasks : \E k \in DOMAIN call_log[t] :
          /\ ~resp_log[j].error.some /\ ~resp_log[j].result.some
          /\ call_log[t][k] = <<resp_log[j].id.v, Ok(Null)>>

\* ---- C32
Seqs == {p \in Tools : tool_kind[p] = "seq"}

\* C32: every command of one execute_sequence call is sent on the handle
\* the call was given, in the order of the list; when the holder is swapped
\* in the middle of the sequence, the remaining commands still go on the old
\* handle.
SequenceOnOneHandle ==
    \A p \in Seqs :
        /\ \A k \in DOMAIN tool_log[p] :
              /\ tool_log[p][k].h = tool_log[p][1].h
              /\ tool_log[p][k].got = tool_log[p][1].got
              /\ tool_log[p][k].method = <<p, k>>
        /\ tool_log[p] # <<>> =>
              /\ tool_pc[p] \in {"send", "await", "done"}
              /\ tool_conn[p] = tool_log[p][1].h

\* the holder was swapped between the first and the second command of a
\* sequence; the second went on the old handle and was answered
SwappedMidSequence ==
    \E p \in Seqs :
        /\ Len(tool_log[p]) >= 2
        /\ tool_log[p][2].at > tool_log[p][1].at
        /\ tool_log[p][2].h = tool_log[p][1].h
        /\ tool_log[p][2].h # live
        /\ tool_log[p][2].r.tag = "Ok"

\* ---- C31
Directs == {p \in Tools : tool_kind[p] \in {"plain", "seq"}}

\* C31: a tool method that calls send, execute or execute_sequence on get()
\* directly never reconnects and never retries: when a send fails in
\* transport the method returns an error, and it never swaps the holder.
DirectOpsNeverReconnect ==
    \A p \in Directs :
        /\ tool_pc[p] \in {"get", "send", "await", "done"}
        /\ SwapsBy(p) = {} /\ tool_new[p] = 0
        /\ \A k \in DOMAIN tool_log[p] :
              /\ tool_log[p][k].got = tool_log[p][1].got
              /\ k < Len(tool_log[p]) => tool_log[p][k].r.tag = "Ok"
              /\ TransportFailure(tool_log[p][k].r) =>
                    tool_pc[p] = "done" /\ tool_out[p] = InternalError
        /\ tool_kind[p] = "plain" => Len(tool_log[p]) <= 1

\* a method of each kind returned an error for a send that failed in
\* transport, and the holder still has the handle the method used
DirectOpFailed ==
    \E p \in Directs :
        /\ tool_pc[p] = "done" /\ tool_out[p] = InternalError
        /\ TransportFailure(tool_log[p][Len(tool_log[p])].r)
        /\ live = tool_log[p][1].h

\* ---- C33
Switches == {p \in Tools : tool_kind[p] = "switch"}

\* C33: switch_tab activates the tab before it reconnects.  Discovery, the
\* handshake and the swap happen only after Target.activateTarget returned
\* Ok; when it failed, switch_tab returns an error without having made a
\* connection or swapped the holder.
SwitchActivatesFirst ==
    \A p \in Switches :
        /\ Len(tool_log[p]) <= 1
        /\ (\/ tool_pc[p] \in {"discover", "handshake", "swap"}
            \/ tool_new[p] # 0
            \/ SwapsBy(p) # {})
              => tool_log[p] # <<>> /\ tool_log[p][1].r.tag = "Ok"
        /\ (tool_log[p] # <<>> /\ tool_log[p][1].r.tag # "Ok") =>
              /\ tool_pc[p] = "done" /\ tool_out[p] = InternalError
              /\ SwapsBy(p) = {} /\ tool_new[p] = 0
        /\ \A i \in SwapsBy(p) : \A j \in SwapsBy(p) : i = j

\* Target.activateTarget was answered with an error: switch_tab returned the
\* error and the holder still has the handle the command went on
ActivateFailed ==
    \E p \in Switches :
        /\ tool_pc[p] = "done" /\ tool_out[p] = InternalError
        /\ tool_log[p] # <<>> /\ tool_log[p][1].r.tag = "ResponseError"
        /\ live = tool_log[p][1].h
        /\ Len(conns) = 1

\* ---- C36
MainLog == tool_log[Main]
AllEnabled ==
    /\ Len(MainLog) = StartupCommands
    /\ \A k \in DOMAIN MainLog : MainLog[k].r.tag = "Ok"

\* C36: main sends Page.enable, DOM.enable and Runtime.enable in that order,
\* each after the one before was answered with success, and starts the tool
\* server after the third; when the connect or one of the three fails, the
\* server is never started.
StartupInOrder ==
    /\ Len(MainLog) <= StartupCommands
    /\ \A k \in DOMAIN MainLog :
          /\ MainLog[k].method = <<Main, k>>
          /\ MainLog[k].h = MainLog[1].h
          /\ MainLog[k].id = FirstId + k - 1
          /\ k < Len(MainLog) => MainLog[k].r.tag = "Ok"
    /\ tool_pc[Main] \in {"send", "await"} =>
          \A k \in DOMAIN MainLog : MainLog[k].r.tag = "Ok"
    /\ (tool_pc[Main] \in {"serve", "serving"} \/ live # 0) => AllEnabled
    /\ live # 0 => tool_pc[Main] = "serving"
    /\ tool_pc[Main] = "done" => tool_out[Main].tag # "Ok"
    /\ ~AllEnabled =>
          /\ live = 0 /\ installed = <<>>
          /\ \A p \in Tools : tool_pc[p] = "get" /\ tool_log[p] = <<>>

\* the server serves, after three enable commands answered with success
ServingAfterEnables ==
    /\ tool_pc[Main] = "serving" /\ live = MainLog[1].h
    /\ AllEnabled
    /\ \E p \in Tools : tool_log[p] # <<>>
====
